---- MODULE Spec2Model ----
(***************************************************************************)
(* namio: phonotactic name generator, availability client, classifier and *)
(* hunt loop.  Strings are sequences of one-character strings; a nullable *)
(* value is <<>> (null / undefined) or <<v>>.                              *)
(***************************************************************************)
EXTENDS Integers, Sequences, FiniteSets, TLC

VARIABLES
    call,        \* the pure function applied (SpecFn) or the command invoked, with its arguments
    result,      \* SpecFn: <<>> before the call returns, <<value>> after
    responses,   \* check: the response bodies received so far, one per query (history)
    impl,        \* which generator: "createGenerator" | "generateCandidates"
    params,      \* generator parameters [min, max, seedWords]
    seen,        \* the generator's seen set
    candidates,  \* the list a generator call is accumulating / last returned
    attempts,    \* loop counter of the running generator call
    nextCount,   \* the count argument of the running generator call
    gpc,         \* generator position: "idle" | "loop"
    emitted,     \* every string returned so far, in order (history)
    calls,       \* number of generator calls started (history)
    opts,        \* HuntOpts [count, tlds, maxPriceUSD]
    round,       \* hunt: round number
    totalFound,  \* streaming hunt: totalFound
    found,       \* accumulated hits (yielded rows / found rows)
    idx,         \* checkDomains: i / processHuntBatches: index
    pending,     \* checkDomains: results of the current batch not yet yielded
    acc,         \* processHuntBatches: acc
    hpc,         \* hunt position
    inflight,    \* number of availability requests in flight
    queries,     \* the batches queried so far, in order (history)
    failures,    \* number of failed batch queries so far (history)
    outcome      \* "running" | "done" | "error"

fnVars == <<call, result, responses>>
genVars == <<impl, params, seen, candidates, attempts, nextCount, gpc, emitted, calls>>
huntVars == <<opts, round, totalFound, found, idx, pending, acc, hpc, inflight, queries, failures, outcome>>
vars == <<call, result, responses, impl, params, seen, candidates, attempts, nextCount, gpc, emitted, calls,
          opts, round, totalFound, found, idx, pending, acc, hpc, inflight, queries, failures, outcome>>

-----------------------------------------------------------------------------
(* Generic helpers over sequences and nullable values.                     *)

Null == <<>>

Some(v) == <<v>>

Range(s) == {s[k] : k \in 1..Len(s)}

Min2(a, b) == IF a <= b THEN a ELSE b

Max2(a, b) == IF a >= b THEN a ELSE b

SeqsUpTo(S, n) == UNION {[1..k -> S] : k \in 0..n}

NoDup(s) == \A p, q \in 1..Len(s) : p # q => s[p] # s[q]

\* Array.prototype.slice(from, to) with 0-based, end-exclusive indices
Slice(s, from, to) == SubSeq(s, from + 1, Min2(to, Len(s)))

RECURSIVE Concat(_)
Concat(ss) == IF ss = <<>> THEN <<>> ELSE Head(ss) \o Concat(Tail(ss))

-----------------------------------------------------------------------------
(* util.ts: isVowel, and the string methods the generator uses.            *)

isVowel(ch) == ch \in {"a", "e", "i", "o", "u"}

UpperCase ==
    <<"A","B","C","D","E","F","G","H","I","J","K","L","M","N","O","P","Q","R","S","T","U","V","W","X","Y","Z">>

LowerCase ==
    <<"a","b","c","d","e","f","g","h","i","j","k","l","m","n","o","p","q","r","s","t","u","v","w","x","y","z">>

toLowerCaseCh(ch) ==
    IF \E k \in 1..Len(UpperCase) : UpperCase[k] = ch
    THEN LowerCase[CHOOSE k \in 1..Len(UpperCase) : UpperCase[k] = ch]
    ELSE ch

toLowerCase(w) == [k \in 1..Len(w) |-> toLowerCaseCh(w[k])]

isSpace(ch) == ch = " "

RECURSIVE trimStart(_)
trimStart(w) == IF w # <<>> /\ isSpace(Head(w)) THEN trimStart(Tail(w)) ELSE w

RECURSIVE trimEnd(_)
trimEnd(w) == IF w # <<>> /\ isSpace(w[Len(w)]) THEN trimEnd(SubSeq(w, 1, Len(w) - 1)) ELSE w

trim(w) == trimEnd(trimStart(w))

startsWith(w, b) == Len(w) >= Len(b) /\ SubSeq(w, 1, Len(b)) = b

-----------------------------------------------------------------------------
(* quality.ts: the quality filter.                                         *)

BAD_STARTS ==
    << <<"n","g">>, <<"m","k">>, <<"z","z">>, <<"x","x">>, <<"h","h">>, <<"s","z">>, <<"z","r">>,
       <<"p","n">>, <<"g","n">>, <<"b","n">>, <<"d","m">>, <<"p","m">>, <<"t","m">> >>

MAX_CONSONANT_RUN == 2

MAX_VOWEL_RUN == 2

\* MIN_TRANSITION_RATIO = 0.4, kept as the fraction 2/5
MIN_TRANSITION_RATIO_NUM == 2

MIN_TRANSITION_RATIO_DEN == 5

INITIAL_STATE ==
    [cRun |-> 0, vRun |-> 0, prevCh |-> "", sameRun |-> 1, transitions |-> 0, failed |-> FALSE]

\* scanChar without the vowel-run test
scanChar_noVowelRun(state, ch) ==
    IF state.failed THEN state
    ELSE
        LET vowel == isVowel(ch)
            cRun == IF vowel THEN 0 ELSE state.cRun + 1
            vRun == IF vowel THEN state.vRun + 1 ELSE 0
            sameRun == IF ch = state.prevCh THEN state.sameRun + 1 ELSE 1
            transitions ==
                IF state.prevCh # "" /\ isVowel(ch) # isVowel(state.prevCh)
                THEN state.transitions + 1
                ELSE state.transitions
            failed == cRun > MAX_CONSONANT_RUN \/ sameRun > 2
        IN [cRun |-> cRun, vRun |-> vRun, prevCh |-> ch, sameRun |-> sameRun,
            transitions |-> transitions, failed |-> failed]

\* scanChar without the early return on a failed state
scanChar_notSticky(state, ch) ==
    LET vowel == isVowel(ch)
        cRun == IF vowel THEN 0 ELSE state.cRun + 1
        vRun == IF vowel THEN state.vRun + 1 ELSE 0
        sameRun == IF ch = state.prevCh THEN state.sameRun + 1 ELSE 1
        transitions ==
            IF state.prevCh # "" /\ isVowel(ch) # isVowel(state.prevCh)
            THEN state.transitions + 1
            ELSE state.transitions
        failed == cRun > MAX_CONSONANT_RUN \/ vRun > MAX_VOWEL_RUN \/ sameRun > 2
    IN [cRun |-> cRun, vRun |-> vRun, prevCh |-> ch, sameRun |-> sameRun,
        transitions |-> transitions, failed |-> failed]

scanChar(state, ch) ==
    IF state.failed THEN state
    ELSE
        LET vowel == isVowel(ch)
            cRun == IF vowel THEN 0 ELSE state.cRun + 1
            vRun == IF vowel THEN state.vRun + 1 ELSE 0
            sameRun == IF ch = state.prevCh THEN state.sameRun + 1 ELSE 1
            transitions ==
                IF state.prevCh # "" /\ isVowel(ch) # isVowel(state.prevCh)
                THEN state.transitions + 1
                ELSE state.transitions
            failed == cRun > MAX_CONSONANT_RUN \/ vRun > MAX_VOWEL_RUN \/ sameRun > 2
        IN [cRun |-> cRun, vRun |-> vRun, prevCh |-> ch, sameRun |-> sameRun,
            transitions |-> transitions, failed |-> failed]

RECURSIVE scanWord(_, _)
scanWord(state, w) == IF w = <<>> THEN state ELSE scanWord(scanChar(state, Head(w)), Tail(w))

\* `word.length < min` / `word.length > max`: a comparison with undefined is false
lengthBelow(len, min) == min # Null /\ len < min[1]

lengthAbove(len, max) == max # Null /\ len > max[1]

isQuality(word, min, max) ==
    IF lengthBelow(Len(word), min) \/ lengthAbove(Len(word), max) THEN FALSE
    ELSE IF ~(\E k \in 1..Len(word) : isVowel(word[k])) THEN FALSE
    ELSE IF \E b \in 1..Len(BAD_STARTS) : startsWith(word, BAD_STARTS[b]) THEN FALSE
    ELSE LET final == scanWord(INITIAL_STATE, word)
         IN IF final.failed THEN FALSE
            ELSE IF Len(word) > 1
                    /\ final.transitions * MIN_TRANSITION_RATIO_DEN
                         < MIN_TRANSITION_RATIO_NUM * (Len(word) - 1)
                 THEN FALSE
                 ELSE TRUE

-----------------------------------------------------------------------------
(* A JavaScript Map: a sequence of <<key, value>> pairs in insertion order, *)
(* keys unique; setting an existing key replaces its value in place.       *)

mapHas(m, k) == \E p \in 1..Len(m) : m[p][1] = k

mapGet(m, k) == IF mapHas(m, k) THEN Some(m[CHOOSE p \in 1..Len(m) : m[p][1] = k][2]) ELSE Null

mapSet(m, k, v) ==
    IF mapHas(m, k)
    THEN [p \in 1..Len(m) |-> IF m[p][1] = k THEN <<k, v>> ELSE m[p]]
    ELSE Append(m, <<k, v>>)

RECURSIVE mapFrom(_, _)
mapFrom(m, entries) ==
    IF entries = <<>> THEN m
    ELSE mapFrom(mapSet(m, Head(entries)[1], Head(entries)[2]), Tail(entries))

mapValues(m) == [p \in 1..Len(m) |-> m[p][2]]

-----------------------------------------------------------------------------
(* Money.  The upstream quotes are integers in cents; the client divides   *)
(* by 100.  A USD amount is kept exactly as whole dollars and hundredths.  *)

CENTS_PER_USD == 100

toDollars(cents) == [whole |-> cents \div CENTS_PER_USD, frac |-> cents % CENTS_PER_USD]

usdLess(a, b) == a.whole < b.whole \/ (a.whole = b.whole /\ a.frac < b.frac)

\* dollars <= maxPriceUSD, maxPriceUSD an integer (parseInt)
usdAtMost(a, budget) == a.whole < budget \/ (a.whole = budget /\ a.frac = 0)

\* `${name}.${tld}`
domainOf(name, tld) == name \o <<".">> \o tld

-----------------------------------------------------------------------------
(* domain/ids.ts: the streaming client's pure helpers.                     *)

\* const cents = m.price ?? m.min_price ?? null
quoteCents(m) == IF m.price # Null THEN m.price ELSE m.min_price

\* the reducer keeping the later quote on a tie
findCheapestStep_lastOnTie(best, m) ==
    LET cents == quoteCents(m) IN
    IF cents = Null THEN best
    ELSE LET dollars == toDollars(cents[1]) IN
         IF best.usd = Null \/ ~usdLess(best.usd[1], dollars)
         THEN [usd |-> Some(dollars), market |-> Some(m.market)]
         ELSE best

findCheapestStep(best, m) ==
    LET cents == quoteCents(m) IN
    IF cents = Null THEN best
    ELSE LET dollars == toDollars(cents[1]) IN
         IF best.usd = Null \/ usdLess(dollars, best.usd[1])
         THEN [usd |-> Some(dollars), market |-> Some(m.market)]
         ELSE best

RECURSIVE findCheapestFrom(_, _)
findCheapestFrom(best, markets) ==
    IF markets = <<>> THEN best
    ELSE findCheapestFrom(findCheapestStep(best, Head(markets)), Tail(markets))

findCheapest(markets) == findCheapestFrom([usd |-> Null, market |-> Null], markets)

\* toDomainResult trusting the registration flag alone
toDomainResult_registrationOnly(r) ==
    LET available == r.isRegistered = Some(FALSE)
        cheapest == findCheapest(r.markets)
    IN [name |-> r.label, tld |-> r.tld, domain |-> domainOf(r.label, r.tld),
        available |-> available, priceUSD |-> cheapest.usd, market |-> cheapest.market]

toDomainResult(r) ==
    LET available == r.isRegistered = Some(FALSE) /\ ~r.czdap /\ ~r.securityTrails
        cheapest == findCheapest(r.markets)
    IN [name |-> r.label, tld |-> r.tld, domain |-> domainOf(r.label, r.tld),
        available |-> available, priceUSD |-> cheapest.usd, market |-> cheapest.market]

\* the Map queryBatch builds from a successful response body
queryBatch(tlds, data) ==
    LET kept == SelectSeq(data, LAMBDA r : r.tld \in Range(tlds))
    IN mapFrom(<<>>, [p \in 1..Len(kept) |-> <<domainOf(kept[p].label, kept[p].tld), toDomainResult(kept[p])>>])

-----------------------------------------------------------------------------
(* types.ts: the classifier.                                               *)

\* classify with a strict price comparison
classify_strict(res, maxPriceUSD) ==
    [name |-> res.name, tld |-> res.tld, domain |-> res.domain, available |-> res.available,
     priceUSD |-> res.priceUSD, market |-> res.market,
     status |-> IF res.available THEN "FREE"
                ELSE IF res.priceUSD # Null /\ usdAtMost(res.priceUSD[1], maxPriceUSD)
                        /\ res.priceUSD[1] # toDollars(maxPriceUSD * CENTS_PER_USD) THEN "BUY"
                ELSE "TAKEN"]

classify(res, maxPriceUSD) ==
    [name |-> res.name, tld |-> res.tld, domain |-> res.domain, available |-> res.available,
     priceUSD |-> res.priceUSD, market |-> res.market,
     status |-> IF res.available THEN "FREE"
                ELSE IF res.priceUSD # Null /\ usdAtMost(res.priceUSD[1], maxPriceUSD) THEN "BUY"
                ELSE "TAKEN"]

-----------------------------------------------------------------------------
(* util.ts (second revision in the file): the map-returning client.        *)

\* the client's flags with purchasable not excluding a free domain
toDomainInfo_freeAndPurchasable(r, maxPriceUSD) ==
    LET isFree == r.isRegistered = Some(FALSE) /\ ~r.czdap /\ ~r.securityTrails
        cheapest == findCheapest(r.markets)
        purchasable == cheapest.usd # Null /\ usdAtMost(cheapest.usd[1], maxPriceUSD)
    IN [name |-> r.label, tld |-> r.tld, available |-> isFree, purchasable |-> purchasable,
        priceUSD |-> cheapest.usd, market |-> cheapest.market]

toDomainInfo(r, maxPriceUSD) ==
    LET isFree == r.isRegistered = Some(FALSE) /\ ~r.czdap /\ ~r.securityTrails
        cheapest == findCheapest(r.markets)
        purchasable == ~isFree /\ cheapest.usd # Null /\ usdAtMost(cheapest.usd[1], maxPriceUSD)
    IN [name |-> r.label, tld |-> r.tld, available |-> isFree, purchasable |-> purchasable,
        priceUSD |-> cheapest.usd, market |-> cheapest.market]

RECURSIVE checkDomainsViaIDSFrom(_, _, _, _)
checkDomainsViaIDSFrom(m, tlds, maxPriceUSD, data) ==
    IF data = <<>> THEN m
    ELSE LET r == Head(data) IN
         IF r.tld \notin Range(tlds)
         THEN checkDomainsViaIDSFrom(m, tlds, maxPriceUSD, Tail(data))
         ELSE checkDomainsViaIDSFrom(mapSet(m, domainOf(r.label, r.tld), toDomainInfo(r, maxPriceUSD)),
                                     tlds, maxPriceUSD, Tail(data))

\* the Map checkDomainsViaIDS returns for a successful response body
checkDomainsViaIDS(tlds, maxPriceUSD, data) == checkDomainsViaIDSFrom(<<>>, tlds, maxPriceUSD, data)

-----------------------------------------------------------------------------
(* check.ts: rows.                                                         *)

toDomainRow(info) ==
    [name |-> info.name, tld |-> info.tld, domain |-> domainOf(info.name, info.tld),
     status |-> IF info.available THEN "FREE" ELSE IF info.purchasable THEN "BUY" ELSE "TAKEN",
     priceUSD |-> info.priceUSD, market |-> info.market]

\* chunk that keeps full batches only: a shorter tail is dropped
RECURSIVE chunk_fullOnly(_, _)
chunk_fullOnly(xs, n) ==
    IF n <= 0 \/ Len(xs) < n
    THEN <<>>
    ELSE <<Slice(xs, 0, n)>> \o chunk_fullOnly(Slice(xs, n, Len(xs)), n)

\* chunk(xs, n), util.ts
RECURSIVE chunk(_, _)
chunk(xs, n) ==
    IF n <= 0 \/ Len(xs) = 0
    THEN IF Len(xs) = 0 THEN <<>> ELSE <<xs>>
    ELSE <<Slice(xs, 0, n)>> \o chunk(Slice(xs, n, Len(xs)), n)

\* toErrorRow(name, tld), check.ts
toErrorRow(name, tld) ==
    [name |-> name, tld |-> tld, domain |-> domainOf(name, tld), status |-> "ERROR",
     priceUSD |-> Null, market |-> Null]

\* checkBatch's rows leaving out the pairs the map has no entry for
checkBatchRows_skipMissing(batch, tlds, map) ==
    Concat([n \in 1..Len(batch) |->
        Concat([t \in 1..Len(tlds) |->
            LET info == mapGet(map, domainOf(batch[n], tlds[t])) IN
            IF info # Null THEN <<toDomainRow(info[1])>> ELSE <<>>])])

\* batch.flatMap((name) => tlds.map((tld) => info ? toDomainRow(info) : toErrorRow(name, tld)))
checkBatchRows(batch, tlds, map) ==
    Concat([n \in 1..Len(batch) |->
        [t \in 1..Len(tlds) |->
            LET info == mapGet(map, domainOf(batch[n], tlds[t])) IN
            IF info # Null THEN toDomainRow(info[1]) ELSE toErrorRow(batch[n], tlds[t])]])

-----------------------------------------------------------------------------
(* util.ts / cli.ts: the names a check is given.                           *)

endsWith(w, suffix) ==
    Len(w) >= Len(suffix) /\ SubSeq(w, Len(w) - Len(suffix) + 1, Len(w)) = suffix

\* .replace(/\.com$/i, "")
stripDotCom(w) ==
    IF endsWith(toLowerCase(w), <<".","c","o","m">>) THEN SubSeq(w, 1, Len(w) - 4) ELSE w

\* .replace(/[^a-z]/g, "")
keepLetters(w) == SelectSeq(w, LAMBDA ch : ch \in Range(LowerCase))

normalizeName(raw) == keepLetters(stripDotCom(toLowerCase(trim(raw))))

\* [...new Set(list)]: the first occurrence of every element, in order
RECURSIVE uniqueFrom(_, _)
uniqueFrom(kept, list) ==
    IF list = <<>> THEN kept
    ELSE uniqueFrom(IF Head(list) \in Range(kept) THEN kept ELSE Append(kept, Head(list)), Tail(list))

\* names.map(normalizeName).filter(Boolean), then the Set
uniqueNames(rawNames) ==
    uniqueFrom(<<>>, SelectSeq([k \in 1..Len(rawNames) |-> normalizeName(rawNames[k])],
                               LAMBDA w : w # <<>>))

\* a check that accepts an empty name list
rejectsNames_never(unique) == FALSE

\* if (unique.length === 0) throw
rejectsNames(unique) == Len(unique) = 0

-----------------------------------------------------------------------------
(* generator.ts: createGenerator / next, and generateCandidates (the       *)
(* revision of the generator that takes the seen set from its caller).     *)

\* the attempt budget factor in `count * 50`
ATTEMPTS_PER_CANDIDATE == 50

\* seedWords.map((s) => s.trim().toLowerCase()).filter(Boolean)
seedsOf(seedWords) ==
    LET mapped == [k \in 1..Len(seedWords) |-> toLowerCase(trim(seedWords[k]))]
    IN SelectSeq(mapped, LAMBDA w : w # <<>>)

\* next's loop body without the `seen.has(word)` test
nextAccepts_noSeen(word, p, seenSet) ==
    /\ ~(Len(word) < p.min \/ Len(word) > p.max)
    /\ isQuality(word, Null, Null)
    /\ word \notin Range(seedsOf(p.seedWords))

\* body of next's loop from the length check on: does the word pass every `continue`?
nextAccepts(word, p, seenSet) ==
    /\ ~(Len(word) < p.min \/ Len(word) > p.max)
    /\ isQuality(word, Null, Null)
    /\ word \notin seenSet
    /\ word \notin Range(seedsOf(p.seedWords))

\* generateCandidates' loop body without the `seeds.includes(word)` test
generateCandidatesAccepts_noSeeds(word, p, seenSet) ==
    /\ isQuality(word, Some(p.min), Some(p.max))
    /\ word \notin seenSet

\* the same three tests in generateCandidates, the length test being isQuality's
generateCandidatesAccepts(word, p, seenSet) ==
    /\ isQuality(word, Some(p.min), Some(p.max))
    /\ word \notin seenSet
    /\ word \notin Range(seedsOf(p.seedWords))

accepts(which, word, p, seenSet) ==
    IF which = "createGenerator" THEN nextAccepts(word, p, seenSet)
    ELSE generateCandidatesAccepts(word, p, seenSet)

\* one loop iteration that pushes an accepted word without adding it to the seen set
attemptStep_notRemembered(which, p, st, raw) ==
    LET word == toLowerCase(raw) IN
    IF accepts(which, word, p, st.seen)
    THEN [attempts |-> st.attempts + 1, candidates |-> Append(st.candidates, word),
          seen |-> st.seen]
    ELSE [st EXCEPT !.attempts = @ + 1]

\* one loop iteration on the strategy's output raw: st is [attempts, candidates, seen]
attemptStep(which, p, st, raw) ==
    LET word == toLowerCase(raw) IN
    IF accepts(which, word, p, st.seen)
    THEN [attempts |-> st.attempts + 1, candidates |-> Append(st.candidates, word),
          seen |-> st.seen \cup {word}]
    ELSE [st EXCEPT !.attempts = @ + 1]

\* the loop condition with an off-by-one attempt budget
loopContinues_offByOne(att, cands, count) == att <= count * ATTEMPTS_PER_CANDIDATE /\ Len(cands) < count

\* the loop condition `attempts < maxAttempts && candidates.length < count`
loopContinues(att, cands, count) == att < count * ATTEMPTS_PER_CANDIDATE /\ Len(cands) < count

-----------------------------------------------------------------------------
(* generator.ts: the seed-mutation strategy.  Every Math.random / pick of  *)
(* the source is a parameter of the operator, chosen by the action.        *)

C_ONSETS == <<"b", "c", "d", "f", "g", "k", "l", "m", "n", "p", "r", "s", "t", "v", "z">>

V == <<"a", "e", "i", "o", "u">>

ENDINGS ==
    << <<"a">>, <<"e">>, <<"i">>, <<"o">>,
       <<"i","o">>, <<"i","a">>, <<"e","o">>, <<"e","a">>,
       <<"a","l">>, <<"e","l">>, <<"i","l">>, <<"o","l">>,
       <<"a","n">>, <<"e","n">>, <<"o","n">>, <<"i","n">>,
       <<"a","r">>, <<"e","r">>, <<"o","r">>,
       <<"i","s">>, <<"o","s">>, <<"u","s">>,
       <<"i","x">>, <<"e","x">>, <<"u","m">> >>

SIMILAR_CONSONANTS ==
    [b |-> <<"p","v","d">>, c |-> <<"k","s","g">>, d |-> <<"t","b","g">>,
     f |-> <<"v","p","s">>, g |-> <<"k","c","d">>, k |-> <<"c","g","t">>,
     l |-> <<"r","n","m">>, m |-> <<"n","l","r">>, n |-> <<"m","l","r">>,
     p |-> <<"b","t","f">>, r |-> <<"l","n","m">>, s |-> <<"z","c","t">>,
     t |-> <<"d","p","c">>, v |-> <<"f","b","z">>, z |-> <<"s","v","c">>]

\* seeds.length > 0 ? seeds : ["signal", "search", "name"]
mutantSeeds(seeds) ==
    IF Len(seeds) > 0 THEN seeds
    ELSE << <<"s","i","g","n","a","l">>, <<"s","e","a","r","c","h">>, <<"n","a","m","e">> >>

\* the values Math.floor(Math.random() * Math.max(1, n)) can take
randomBelow(n) == 0..(Max2(1, n) - 1)

\* seed.slice(start, start + sliceLen)
stemOf(seed, sliceLen, start) == Slice(seed, start, start + sliceLen)

\* the replacement array with the vowel list left unfiltered
replacementsFor_anyVowel(ch) ==
    IF isVowel(ch) THEN V
    ELSE IF ch \in DOMAIN SIMILAR_CONSONANTS THEN SIMILAR_CONSONANTS[ch]
    ELSE C_ONSETS

\* the array the replacement of ch is picked from
replacementsFor(ch) ==
    IF isVowel(ch) THEN SelectSeq(V, LAMBDA v : v # ch)
    ELSE IF ch \in DOMAIN SIMILAR_CONSONANTS THEN SIMILAR_CONSONANTS[ch]
    ELSE C_ONSETS

\* the stem with the character at pos replaced by repl (the stem itself when empty)
mutate(stem, pos, repl) ==
    IF pos < Len(stem)
    THEN Slice(stem, 0, pos) \o <<repl>> \o Slice(stem, pos + 1, Len(stem))
    ELSE stem

generateMutant(seed, sliceLen, start, pos, repl, ending) ==
    mutate(stemOf(toLowerCase(seed), sliceLen, start), pos, repl) \o ending

\* the later revision: a short word is padded and the result cut to max
generateMutantCut(seed, sliceLen, start, pos, repl, ending, padV, padC, min, max) ==
    LET mutated == mutate(stemOf(toLowerCase(seed), sliceLen, start), pos, repl)
        word == mutated \o ending
    IN Slice(IF Len(word) < min THEN mutated \o <<padV>> \o <<padC>> \o ending ELSE word, 0, max)

-----------------------------------------------------------------------------
(* Bounds and inputs of the generator specification.                       *)

MaxCount == 2

MaxCalls == 2

\* what a strategy may return before .toLowerCase(): accepted words, a word
\* differing from one only in case, a seed, and one word per rejection cause
Draws ==
    { <<"a","b">>, <<"b","a">>, <<"e","b","a">>, <<"A","b">>, <<"a","b","a">>,
      <<"a","a","a">>, <<"b">>, <<"b","b">>, <<"a","a","b","b">>, <<"g","n","a">>,
      <<"b","a","b","a","b">> }

GenParams ==
    { [min |-> 2, max |-> 4, seedWords |-> << <<" ","A","b","a"," ">>, <<" ">> >>],
      [min |-> 3, max |-> 4, seedWords |-> <<>>],
      [min |-> 3, max |-> 2, seedWords |-> <<>>] }

FnOff == call = [fn |-> "none"] /\ result = Null /\ responses = <<>>

GenOff ==
    /\ impl = "none" /\ params = [min |-> 0, max |-> 0, seedWords |-> <<>>]
    /\ seen = {} /\ candidates = <<>> /\ attempts = 0 /\ nextCount = 0
    /\ gpc = "idle" /\ emitted = <<>> /\ calls = 0

HuntOff ==
    /\ opts = [count |-> 0, tlds |-> <<>>, maxPriceUSD |-> 0]
    /\ round = 0 /\ totalFound = 0 /\ found = <<>> /\ idx = 0
    /\ pending = <<>> /\ acc = <<>> /\ hpc = "off" /\ inflight = 0 /\ queries = <<>>
    /\ failures = 0 /\ outcome = "off"

\* createGenerator(params) / the first generateCandidates call with a fresh seen set
InitGen ==
    /\ impl \in {"createGenerator", "generateCandidates"}
    /\ params \in GenParams
    /\ seen = {} /\ candidates = <<>> /\ attempts = 0 /\ nextCount = 0
    /\ gpc = "idle" /\ emitted = <<>> /\ calls = 0
    /\ FnOff /\ HuntOff

\* next(count) / generateCandidates({count, ..., seen}) is entered
GenCall(c) ==
    /\ gpc = "idle" /\ calls < MaxCalls
    /\ candidates' = <<>> /\ attempts' = 0 /\ nextCount' = c
    /\ gpc' = "loop" /\ calls' = calls + 1
    /\ UNCHANGED <<impl, params, seen, emitted>>
    /\ UNCHANGED fnVars /\ UNCHANGED huntVars

\* one iteration of the for loop, the strategy having returned raw
GenAttempt(raw) ==
    /\ gpc = "loop" /\ loopContinues(attempts, candidates, nextCount)
    /\ LET st == attemptStep(impl, params,
                             [attempts |-> attempts, candidates |-> candidates, seen |-> seen], raw)
       IN seen' = st.seen /\ candidates' = st.candidates /\ attempts' = st.attempts
    /\ UNCHANGED <<impl, params, nextCount, gpc, emitted, calls>>
    /\ UNCHANGED fnVars /\ UNCHANGED huntVars

\* the loop condition fails: return candidates
GenReturn ==
    /\ gpc = "loop" /\ ~loopContinues(attempts, candidates, nextCount)
    /\ emitted' = emitted \o candidates
    /\ gpc' = "idle"
    /\ UNCHANGED <<impl, params, seen, candidates, attempts, nextCount, calls>>
    /\ UNCHANGED fnVars /\ UNCHANGED huntVars

GenStep == (\E raw \in Draws : GenAttempt(raw)) \/ GenReturn

NextGen ==
    \/ \E c \in -1..MaxCount : GenCall(c)
    \/ \E raw \in Draws : GenAttempt(raw)
    \/ GenReturn

SpecGen == InitGen /\ [][NextGen]_vars

\* the loop is synchronous code: it always takes its next step
SpecGenFair == SpecGen /\ WF_vars(GenStep)

-----------------------------------------------------------------------------
(* The generator drawing from the seed-mutation strategy, on seed words    *)
(* that hold a digit or a hyphen.                                          *)

\* seed word lists as parseSeedWords passes them on: split at spaces and commas only
MutantParams ==
    { [min |-> 4, max |-> 5, seedWords |-> << <<"A","b","1">> >>],
      [min |-> 4, max |-> 5, seedWords |-> << <<"r","e","-","d","o">> >>] }

\* the endings and replacement letters the picks are drawn from
MutantEndings == {ENDINGS[1], ENDINGS[15]}

MutantLetters == {"e", "p"}

InitMutant ==
    /\ impl \in {"createGenerator", "generateCandidates"}
    /\ params \in MutantParams
    /\ seen = {} /\ candidates = <<>> /\ attempts = 0 /\ nextCount = 0
    /\ gpc = "idle" /\ emitted = <<>> /\ calls = 0
    /\ FnOff /\ HuntOff

\* one iteration of the for loop, the weighted pick having chosen generateMutant
GenAttemptMutant ==
    \E seed \in Range(mutantSeeds(seedsOf(params.seedWords))), sliceLen \in {3, 4} :
      \E start \in randomBelow(Len(seed) - sliceLen + 1) :
        LET stem == stemOf(seed, sliceLen, start) IN
        \E pos \in randomBelow(Len(stem)), ending \in MutantEndings :
          \E repl \in (IF stem = <<>> THEN {"e"}
                       ELSE Range(replacementsFor(stem[pos + 1])) \cap MutantLetters) :
            GenAttempt(IF impl = "createGenerator"
                       THEN generateMutant(seed, sliceLen, start, pos, repl, ending)
                       ELSE generateMutantCut(seed, sliceLen, start, pos, repl, ending,
                                              "a", "b", params.min, params.max))

NextMutant ==
    \/ GenCall(1)
    \/ GenAttemptMutant
    \/ GenReturn

SpecMutant == InitMutant /\ [][NextMutant]_vars

-----------------------------------------------------------------------------
(* SpecFn: the pure functions, each applied once to an input drawn from a  *)
(* bounded set.                                                            *)

MaxWordLen == 6

QAlphabet == {"a", "e", "n", "g"}

palo == <<"p","a","l","o">>

calvo == <<"c","a","l","v","o">>

aaa == <<"a","a","a">>

xyzz == <<"x","y","z","z">>

QWords == SeqsUpTo(QAlphabet, MaxWordLen) \cup {palo, calvo, aaa, xyzz}

QLimits == {<<Null, Null>>, <<Some(2), Some(4)>>}

Quote(mk, price, minPrice) == [market |-> mk, price |-> price, min_price |-> minPrice, type |-> "buy"]

MarketLists ==
    { <<>>,
      <<Quote("sedo", Some(1200), Null)>>,
      <<Quote("afternic", Null, Some(450))>>,
      <<Quote("dan", Null, Null)>>,
      <<Quote("sedo", Some(0), Some(300)), Quote("dan", Some(100), Null)>>,
      <<Quote("sedo", Some(1500), Some(100)), Quote("dan", Some(1201), Null)>>,
      <<Quote("dan", Null, Null), Quote("sedo", Some(501), Null), Quote("afternic", Some(501), Null)>> }

com == <<"c","o","m">>

io == <<"i","o">>

IDSRecords ==
    [isRegistered : {Null, Some(TRUE), Some(FALSE)}, label : {palo}, tld : {com},
     czdap : BOOLEAN, securityTrails : BOOLEAN, markets : MarketLists]

Budgets == {0, 5, 12, 15}

PriceCents == {0, 499, 500, 501, 1200, 1201, 1500}

DomainResults ==
    [name : {palo}, tld : {com}, domain : {domainOf(palo, com)}, available : BOOLEAN,
     priceUSD : {Null} \cup {Some(toDollars(c)) : c \in PriceCents},
     market : {Null, Some("sedo")}]

FnCalls ==
    {[fn |-> "isQuality", word |-> w, min |-> l[1], max |-> l[2]] : w \in QWords, l \in QLimits}
    \cup {[fn |-> "toDomainResult", r |-> r] : r \in IDSRecords}
    \cup {[fn |-> "toDomainInfo", r |-> r, maxPriceUSD |-> b] : r \in IDSRecords, b \in Budgets}
    \cup {[fn |-> "classify", res |-> d, maxPriceUSD |-> b] : d \in DomainResults, b \in Budgets}

InitFn == call \in FnCalls /\ result = Null /\ responses = <<>> /\ GenOff /\ HuntOff

CallIsQuality ==
    /\ call.fn = "isQuality" /\ result = Null
    /\ result' = Some(isQuality(call.word, call.min, call.max))
    /\ UNCHANGED <<call, responses>> /\ UNCHANGED genVars /\ UNCHANGED huntVars

CallToDomainResult ==
    /\ call.fn = "toDomainResult" /\ result = Null
    /\ result' = Some(toDomainResult(call.r))
    /\ UNCHANGED <<call, responses>> /\ UNCHANGED genVars /\ UNCHANGED huntVars

CallToDomainInfo ==
    /\ call.fn = "toDomainInfo" /\ result = Null
    /\ result' = Some(toDomainInfo(call.r, call.maxPriceUSD))
    /\ UNCHANGED <<call, responses>> /\ UNCHANGED genVars /\ UNCHANGED huntVars

CallClassify ==
    /\ call.fn = "classify" /\ result = Null
    /\ result' = Some(classify(call.res, call.maxPriceUSD))
    /\ UNCHANGED <<call, responses>> /\ UNCHANGED genVars /\ UNCHANGED huntVars

NextFn == CallIsQuality \/ CallToDomainResult \/ CallToDomainInfo \/ CallClassify

SpecFn == InitFn /\ [][NextFn]_vars

Returned(fn) == call.fn = fn /\ result # Null

-----------------------------------------------------------------------------
(* Claims about the pure functions (SpecFn).                               *)

\* C3: the derived `available` flag is true iff the registration flag is exactly
\* false and both auxiliary flags are false; a registration flag of null or true,
\* or either auxiliary flag being true, always yields available = false.  Both
\* clients (toDomainResult and the map-returning one) are covered.
C3_AvailableIffAllSignalsAgree ==
    (Returned("toDomainResult") \/ Returned("toDomainInfo")) =>
        /\ result[1].available <=>
               (call.r.isRegistered = Some(FALSE) /\ call.r.czdap = FALSE /\ call.r.securityTrails = FALSE)
        /\ (call.r.isRegistered \in {Null, Some(TRUE)} \/ call.r.czdap \/ call.r.securityTrails)
               => result[1].available = FALSE

\* a record whose registration flag is false but one registry disagrees
C3_Witness ==
    /\ Returned("toDomainResult")
    /\ call.r.isRegistered = Some(FALSE) /\ call.r.czdap /\ ~call.r.securityTrails
    /\ result[1].available = FALSE

CentsOf(usd) == usd.whole * 100 + usd.frac

\* C4: classify returns FREE when available (whatever the price and budget), BUY
\* when not available and the cheapest price is non-null and <= budget, TAKEN
\* otherwise; never ERROR or anything else.
C4_ClassifyTotal ==
    Returned("classify") =>
        /\ result[1].status \in {"FREE", "BUY", "TAKEN"}
        /\ call.res.available => result[1].status = "FREE"
        /\ (~call.res.available /\ call.res.priceUSD # Null
              /\ CentsOf(call.res.priceUSD[1]) <= 100 * call.maxPriceUSD) => result[1].status = "BUY"
        /\ (~call.res.available
              /\ (call.res.priceUSD = Null \/ CentsOf(call.res.priceUSD[1]) > 100 * call.maxPriceUSD))
              => result[1].status = "TAKEN"

\* the spec's example: price 12.00 with budget 15 is BUY
C4_Witness ==
    /\ Returned("classify") /\ ~call.res.available
    /\ call.res.priceUSD = Some([whole |-> 12, frac |-> 0]) /\ call.maxPriceUSD = 15
    /\ result[1].status = "BUY"

HasVowel(w) == \E k \in 1..Len(w) : w[k] \in {"a", "e", "i", "o", "u"}

StartsBad(w) == \E b \in Range(BAD_STARTS) : Len(w) >= 2 /\ w[1] = b[1] /\ w[2] = b[2]

TripleIdentical(w) == \E k \in 1..(Len(w) - 2) : w[k] = w[k+1] /\ w[k+1] = w[k+2]

TripleConsonant(w) == \E k \in 1..(Len(w) - 2) : \A j \in k..(k+2) : ~isVowel(w[j])

TripleVowel(w) == \E k \in 1..(Len(w) - 2) : \A j \in k..(k+2) : isVowel(w[j])

Transitions(w) == Cardinality({k \in 1..(Len(w) - 1) : isVowel(w[k]) # isVowel(w[k+1])})

\* transitions / (length - 1) >= 0.4
RatioOk(w) == Len(w) > 1 => 5 * Transitions(w) >= 2 * (Len(w) - 1)

QualityRules(w) ==
    /\ HasVowel(w) /\ ~StartsBad(w)
    /\ ~TripleIdentical(w) /\ ~TripleConsonant(w) /\ ~TripleVowel(w)
    /\ RatioOk(w)

WithinLimits(w, min, max) == (min # Null => Len(w) >= min[1]) /\ (max # Null => Len(w) <= max[1])

-----------------------------------------------------------------------------
(* Claims about the generator (SpecGen, SpecGenFair).                      *)

\* everything handed out so far, the running call's list included
Offered == emitted \o (IF gpc = "loop" THEN candidates ELSE <<>>)

\* C5: across any sequence of next(count) calls on one generator (or
\* generateCandidates calls sharing one seen set) no string is returned twice: each
\* returned list is duplicate-free and disjoint from everything returned earlier,
\* and the seen set only grows and always contains every string returned so far.
C5_NeverReturnedTwice ==
    /\ [](NoDup(Offered) /\ Range(Offered) \subseteq seen)
    /\ [][seen \subseteq seen']_vars

\* a second call has returned a non-empty list after a first non-empty one
C5_Witness ==
    /\ calls = 2 /\ gpc = "idle" /\ candidates # <<>> /\ Len(emitted) > Len(candidates)
    /\ attempts > Len(candidates)

TrimmedLowercasedSeeds == {toLowerCase(trim(params.seedWords[k])) : k \in 1..Len(params.seedWords)}

\* C6: every string returned by next(count) satisfies the whole acceptance
\* predicate: min <= length <= max, it passes isQuality (a vowel, no run of 3
\* identical characters, no run of 3 characters of one class), and it differs from
\* every trimmed, lowercased seed word.
C6_ReturnedAreAcceptable ==
    \A w \in Range(Offered) :
        /\ params.min <= Len(w) /\ Len(w) <= params.max
        /\ isQuality(w, Null, Null)
        /\ HasVowel(w) /\ ~TripleIdentical(w) /\ ~TripleConsonant(w) /\ ~TripleVowel(w)
        /\ w \notin TrimmedLowercasedSeeds

\* a list was returned by a generator that has seed words, after rejected attempts
C6_Witness ==
    /\ gpc = "idle" /\ emitted # <<>> /\ params.seedWords # <<>>
    /\ attempts > Len(candidates) /\ nextCount > Len(candidates)

\* C7: next(count) terminates after at most count x 50 attempts and returns at
\* most count strings; an exhausted budget returns the list accumulated so far;
\* for count <= 0 it makes no attempt and returns an empty list.
C7_BoundedAttempts ==
    /\ [](/\ attempts <= Max2(0, nextCount * 50)
          /\ Len(candidates) <= Max2(0, nextCount)
          /\ (nextCount <= 0 => attempts = 0 /\ candidates = <<>>))
    /\ [][(gpc = "loop" /\ gpc' = "idle") => (emitted' = emitted \o candidates /\ candidates' = candidates)]_vars
    /\ (gpc = "loop" ~> gpc = "idle")

\* a call that spent its whole budget and returned a short list
C7_Witness ==
    /\ gpc = "idle" /\ calls > 0 /\ nextCount > 0
    /\ attempts = nextCount * 50 /\ Len(candidates) < nextCount

-----------------------------------------------------------------------------
(* check.ts: the presentation order a hunt's rows are returned in.         *)

Alphabet ==
    <<"a","b","c","d","e","f","g","h","i","j","k","l","m","n","o","p","q","r","s","t","u","v","w","x","y","z">>

letterIndex(ch) == CHOOSE k \in 1..Len(Alphabet) : Alphabet[k] = ch

\* a.localeCompare(b) < 0, for names of lowercase letters
RECURSIVE nameBefore(_, _)
nameBefore(a, b) ==
    IF b = <<>> THEN FALSE
    ELSE IF a = <<>> THEN TRUE
    ELSE IF Head(a) # Head(b) THEN letterIndex(Head(a)) < letterIndex(Head(b))
    ELSE nameBefore(Tail(a), Tail(b))

\* sortByName(a, b) > 0
sortByNameAfter(a, b) == nameBefore(b.name, a.name)

\* sortByPrice(a, b) > 0 with a missing price counting as 0
sortByPriceAfter_missingFirst(a, b) ==
    IF a.priceUSD = Null THEN FALSE
    ELSE b.priceUSD = Null \/ usdLess(b.priceUSD[1], a.priceUSD[1])

\* sortByPrice(a, b) > 0, a missing price counting as Number.MAX_SAFE_INTEGER
sortByPriceAfter(a, b) ==
    IF a.priceUSD = Null THEN b.priceUSD # Null
    ELSE b.priceUSD # Null /\ usdLess(b.priceUSD[1], a.priceUSD[1])

\* [...arr].sort(cmp), a stable sort: x goes after the last element not after it
RECURSIVE insertByName(_, _)
insertByName(sortedRows, x) ==
    IF sortedRows = <<>> THEN <<x>>
    ELSE IF sortByNameAfter(Head(sortedRows), x) THEN <<x>> \o sortedRows
    ELSE <<Head(sortedRows)>> \o insertByName(Tail(sortedRows), x)

RECURSIVE sortedByName(_)
sortedByName(rows) ==
    IF rows = <<>> THEN <<>>
    ELSE insertByName(sortedByName(SubSeq(rows, 1, Len(rows) - 1)), rows[Len(rows)])

RECURSIVE insertByPrice(_, _)
insertByPrice(sortedRows, x) ==
    IF sortedRows = <<>> THEN <<x>>
    ELSE IF sortByPriceAfter(Head(sortedRows), x) THEN <<x>> \o sortedRows
    ELSE <<Head(sortedRows)>> \o insertByPrice(Tail(sortedRows), x)

RECURSIVE sortedByPrice(_)
sortedByPrice(rows) ==
    IF rows = <<>> THEN <<>>
    ELSE insertByPrice(sortedByPrice(SubSeq(rows, 1, Len(rows) - 1)), rows[Len(rows)])

byStatus(rows, status) == SelectSeq(rows, LAMBDA r : r.status = status)

sortDomainRows(rows) ==
    sortedByName(byStatus(rows, "FREE")) \o sortedByPrice(byStatus(rows, "BUY"))
        \o sortedByName(byStatus(rows, "TAKEN")) \o sortedByName(byStatus(rows, "ERROR"))

-----------------------------------------------------------------------------
(* hunt.ts: the hunt loop, in its two revisions.  impl = "createGenerator" *)
(* is the streaming hunt (async generator over checkDomains), impl =       *)
(* "generateCandidates" the recursive one (runRound / processHuntBatches). *)

GEN_BATCH == 120

MAX_GEN_PER_ROUND == 500

\* MAX_ROUNDS is 100 in the source; the model runs the same loop with a smaller cap
\* MAX_ROUNDS of hunt.ts; the hunt machine runs MaxRounds rounds, the round-size
\* function is applied to every round number up to MAX_ROUNDS
MAX_ROUNDS == 100

MaxRounds == 2

\* DEFAULT_BATCH_SIZE / IDS_BATCH_SIZE is 25 in the source; scaled likewise
BatchSize == 1

\* the largest target count tried
MaxTarget == 2

\* Math.min(GEN_BATCH * Math.ceil(round / 3), MAX_GEN_PER_ROUND)
\* the round's request size with the quotient rounded down instead of up
batchCount_floor(r) == Min2(GEN_BATCH * (r \div 3), MAX_GEN_PER_ROUND)

batchCount(r) == Min2(GEN_BATCH * ((r + 2) \div 3), MAX_GEN_PER_ROUND)

\* the whole loop of next / generateCandidates on the listed draws
RECURSIVE generatorLoop(_, _, _, _, _)
generatorLoop(which, count, p, st, draws) ==
    IF draws = <<>> \/ ~loopContinues(st.attempts, st.candidates, count) THEN st
    ELSE generatorLoop(which, count, p, attemptStep(which, p, st, Head(draws)), Tail(draws))

\* a call of the generator: the listed draws, then rejected draws until the loop ends
generatorCall(which, count, p, seenSet, draws) ==
    LET st == generatorLoop(which, count, p, [attempts |-> 0, candidates |-> <<>>, seen |-> seenSet], draws)
    IN IF loopContinues(st.attempts, st.candidates, count)
       THEN [st EXCEPT !.attempts = count * ATTEMPTS_PER_CANDIDATE]
       ELSE st

\* the for loop's condition comparing with <= instead of <
huntContinues_inclusive(r, n, count) == r <= MaxRounds /\ n <= count

\* the for loop's condition in the streaming hunt
huntContinues(r, n, count) == r <= MaxRounds /\ n < count

\* runRound's entry test without the round cap
runRoundReturns_noCap(r, n, count) == n >= count

\* runRound's entry test
runRoundReturns(r, n, count) == r > MaxRounds \/ n >= count

\* the accumulation without the slice
takeHits_noSlice(accRows, hits, remaining) == accRows \o hits

\* const taken = [...acc, ...hits].slice(0, remaining)
takeHits(accRows, hits, remaining) == Slice(accRows \o hits, 0, remaining)

\* a round whose generation is never taken to have stalled
noCandidates_never(cands) == FALSE

\* candidates.length === 0
noCandidates(cands) == Len(cands) = 0

\* checkDomains' loop staying on the same batch
nextBatchStart_same(i) == i

\* i += batchSize
nextBatchStart(i) == i + BatchSize

\* the catch block passing on an emptied accumulator
accAfterFailure_dropped(accRows) == <<>>

\* the catch block passes acc on as it is
accAfterFailure(accRows) == accRows

\* the results checkDomains yields for one batch, in order
yieldedResults(batch, tlds, results) ==
    LET looked == Concat([n \in 1..Len(batch) |->
                     Concat([t \in 1..Len(tlds) |-> mapGet(results, domainOf(batch[n], tlds[t]))])])
    IN looked

\* the rows of one batch's map without the available / purchasable filter
batchHits_unfiltered(map) == [k \in 1..Len(mapValues(map)) |-> toDomainRow(mapValues(map)[k])]

\* the rows processHuntBatches keeps from one batch's map
batchHits(map) ==
    LET infos == SelectSeq(mapValues(map), LAMBDA info : info.available \/ info.purchasable)
    IN [k \in 1..Len(infos) |-> toDomainRow(infos[k])]

-----------------------------------------------------------------------------
(* Inputs of the hunt specification.                                       *)

piso == <<"p","i","s","o">>

feva == <<"f","e","v","a">>

stray == <<"z","e","t","a">>

net == <<"n","e","t">>

HuntDraws == {palo, calvo, piso, feva}

\* the strategy outputs of a round's generator call that are listed (none, one or
\* two); every other attempt of the call draws a word the loop rejects
DrawLists == {<<>>} \cup {<<a>> : a \in HuntDraws} \cup {<<a, b>> : a \in HuntDraws, b \in HuntDraws}

HuntParams == [min |-> 4, max |-> 7, seedWords |-> << <<"F","e","v","a">> >>]

HuntOptsSet == [count : 0..MaxTarget, tlds : {<<com>>, <<com, io>>}, maxPriceUSD : {0, 15}]

\* verdicts of a record: unregistered on all three signals, or registered with a
\* 12.00 quote (BUY under a budget of 15, TAKEN under a budget of 0)
Kinds == {"free", "priced"}

idsRecord(label, tld, kind) ==
    [isRegistered |-> IF kind = "free" THEN Some(FALSE) ELSE Some(TRUE),
     label |-> label, tld |-> tld, czdap |-> FALSE, securityTrails |-> kind # "free",
     markets |-> IF kind = "priced" THEN <<Quote("sedo", Some(1200), Null)>> ELSE <<>>]

\* records a response may hold: any verdict on a requested pair, a record for a
\* label that was not asked for, a record for a TLD that was not asked for
ResponseRecords(batch, tlds) ==
    {idsRecord(l, t, k) : l \in Range(batch), t \in Range(tlds), k \in Kinds}
        \cup {idsRecord(stray, Head(tlds), "free"), idsRecord(Head(batch), net, "free")}

\* a response body: no record, one record or two records
ResponseBodies(batch, tlds) ==
    {<<>>} \cup {<<r>> : r \in ResponseRecords(batch, tlds)}
        \cup {<<r1, r2>> : r1 \in ResponseRecords(batch, tlds), r2 \in ResponseRecords(batch, tlds)}

currentBatch == Slice(candidates, idx, idx + BatchSize)

InitHunt ==
    /\ impl \in {"createGenerator", "generateCandidates"}
    /\ params = HuntParams
    /\ opts \in HuntOptsSet
    /\ seen = {} /\ candidates = <<>> /\ attempts = 0 /\ nextCount = 0
    /\ gpc = "idle" /\ emitted = <<>> /\ calls = 0
    /\ round = 1 /\ totalFound = 0 /\ found = <<>> /\ idx = 0
    /\ pending = <<>> /\ acc = <<>> /\ inflight = 0 /\ queries = <<>> /\ failures = 0
    /\ hpc = (IF impl = "createGenerator" THEN "for" ELSE "runRound")
    /\ outcome = "running"
    /\ FnOff

\* the generator call of a round: generator.next(batchCount) / generateCandidates
callGenerator(draws) ==
    LET g == generatorCall(impl, batchCount(round), params, seen, draws) IN
    /\ candidates' = g.candidates /\ seen' = g.seen /\ attempts' = g.attempts
    /\ nextCount' = batchCount(round) /\ calls' = calls + 1
    /\ emitted' = emitted \o g.candidates
    /\ UNCHANGED <<impl, params, gpc>>

-----------------------------------------------------------------------------
(* The streaming hunt (hunt.ts, first revision) over checkDomains.         *)

\* for (...; round <= MAX_ROUNDS && totalFound < opts.count; ...): a round starts
\* with generator.next; no candidates ends the hunt
HuntRound(draws) ==
    /\ impl = "createGenerator" /\ hpc = "for"
    /\ huntContinues(round, totalFound, opts.count)
    /\ callGenerator(draws)
    /\ IF noCandidates(candidates')
       THEN hpc' = "done" /\ outcome' = "done"
       ELSE hpc' = "checkDomains" /\ outcome' = outcome
    /\ idx' = 0 /\ pending' = <<>>
    /\ UNCHANGED <<opts, round, totalFound, found, acc, inflight, queries, failures>>
    /\ UNCHANGED fnVars

\* the for loop's condition is false: the async generator completes
HuntExit ==
    /\ impl = "createGenerator" /\ hpc = "for"
    /\ ~huntContinues(round, totalFound, opts.count)
    /\ hpc' = "done" /\ outcome' = "done"
    /\ UNCHANGED <<opts, round, totalFound, found, idx, pending, acc, inflight, queries, failures>>
    /\ UNCHANGED genVars /\ UNCHANGED fnVars

\* checkDomains' loop head: the next batch's request is sent, or the names are
\* exhausted and the for await loop ends
CheckDomainsBatch ==
    /\ impl = "createGenerator" /\ hpc = "checkDomains"
    /\ IF idx < Len(candidates)
       THEN /\ inflight' = inflight + 1
            /\ queries' = Append(queries, currentBatch)
            /\ hpc' = "queryBatch"
       ELSE /\ hpc' = "roundEnd"
            /\ UNCHANGED <<inflight, queries>>
    /\ UNCHANGED <<opts, round, totalFound, found, idx, pending, acc, failures, outcome>>
    /\ UNCHANGED genVars /\ UNCHANGED fnVars

\* queryBatch resolves with the response body data
QueryBatchOk ==
    /\ impl = "createGenerator" /\ hpc = "queryBatch"
    /\ inflight' = inflight - 1
    /\ \E data \in ResponseBodies(currentBatch, opts.tlds) :
           pending' = yieldedResults(currentBatch, opts.tlds, queryBatch(opts.tlds, data))
    /\ hpc' = "yield"
    /\ UNCHANGED <<opts, round, totalFound, found, idx, acc, queries, failures, outcome>>
    /\ UNCHANGED genVars /\ UNCHANGED fnVars

\* queryBatch rejects (non-success status, timeout, transport error): nothing
\* catches it in checkDomains or in hunt, so the hunt's consumer gets the error
QueryBatchFails ==
    /\ impl = "createGenerator" /\ hpc = "queryBatch"
    /\ inflight' = inflight - 1
    /\ failures' = failures + 1
    /\ hpc' = "threw" /\ outcome' = "error"
    /\ UNCHANGED <<opts, round, totalFound, found, idx, pending, acc, queries>>
    /\ UNCHANGED genVars /\ UNCHANGED fnVars

\* checkDomains yields one result; the body of hunt's for await loop runs on it
HuntResult ==
    /\ impl = "createGenerator" /\ hpc = "yield" /\ pending # <<>>
    /\ IF totalFound >= opts.count
       THEN /\ hpc' = "roundEnd" /\ pending' = <<>>
            /\ UNCHANGED <<totalFound, found>>
       ELSE LET classified == classify(Head(pending), opts.maxPriceUSD) IN
            /\ IF classified.status = "FREE" \/ classified.status = "BUY"
               THEN found' = Append(found, classified) /\ totalFound' = totalFound + 1
               ELSE UNCHANGED <<totalFound, found>>
            /\ pending' = Tail(pending)
            /\ hpc' = hpc
    /\ UNCHANGED <<opts, round, idx, acc, inflight, queries, failures, outcome>>
    /\ UNCHANGED genVars /\ UNCHANGED fnVars

\* the batch's results are all yielded: (pacing delay,) i += batchSize
CheckDomainsNext ==
    /\ impl = "createGenerator" /\ hpc = "yield" /\ pending = <<>>
    /\ idx' = nextBatchStart(idx)
    /\ hpc' = "checkDomains"
    /\ UNCHANGED <<opts, round, totalFound, found, pending, acc, inflight, queries, failures, outcome>>
    /\ UNCHANGED genVars /\ UNCHANGED fnVars

\* end of the round: log, (pacing delay,) round++
HuntRoundEnd ==
    /\ impl = "createGenerator" /\ hpc = "roundEnd"
    /\ round' = round + 1
    /\ hpc' = "for"
    /\ UNCHANGED <<opts, totalFound, found, idx, pending, acc, inflight, queries, failures, outcome>>
    /\ UNCHANGED genVars /\ UNCHANGED fnVars

-----------------------------------------------------------------------------
(* The recursive hunt (hunt.ts, second revision): runRound and             *)
(* processHuntBatches over checkDomainsViaIDS.                             *)

remainingHits == opts.count - Len(found)

\* runRound returns at entry: hunt returns sortDomainRows(found)
RunRoundReturn ==
    /\ impl = "generateCandidates" /\ hpc = "runRound"
    /\ runRoundReturns(round, Len(found), opts.count)
    /\ found' = sortDomainRows(found)
    /\ hpc' = "done" /\ outcome' = "done"
    /\ UNCHANGED <<opts, round, totalFound, idx, pending, acc, inflight, queries, failures>>
    /\ UNCHANGED genVars /\ UNCHANGED fnVars

\* runRound generates the round's candidates and chunks them; none ends the hunt
RunRound(draws) ==
    /\ impl = "generateCandidates" /\ hpc = "runRound"
    /\ ~runRoundReturns(round, Len(found), opts.count)
    /\ callGenerator(draws)
    /\ IF noCandidates(candidates')
       THEN found' = sortDomainRows(found) /\ hpc' = "done" /\ outcome' = "done"
       ELSE found' = found /\ hpc' = "processHuntBatches" /\ outcome' = outcome
    /\ idx' = 0 /\ acc' = <<>>
    /\ UNCHANGED <<opts, round, totalFound, pending, inflight, queries, failures>>
    /\ UNCHANGED fnVars

\* processHuntBatches with batches left and fewer rows than remaining: query batches[index]
ProcessHuntBatchesQuery ==
    /\ impl = "generateCandidates" /\ hpc = "processHuntBatches"
    /\ ~(idx >= Len(chunk(candidates, BatchSize)) \/ Len(acc) >= remainingHits)
    /\ inflight' = inflight + 1
    /\ queries' = Append(queries, chunk(candidates, BatchSize)[idx + 1])
    /\ hpc' = "checkDomainsViaIDS"
    /\ UNCHANGED <<opts, round, totalFound, found, idx, pending, acc, failures, outcome>>
    /\ UNCHANGED genVars /\ UNCHANGED fnVars

\* the request succeeds with body data: keep the hits, cut to remaining, next index
CheckDomainsViaIDSOk ==
    /\ impl = "generateCandidates" /\ hpc = "checkDomainsViaIDS"
    /\ inflight' = inflight - 1
    /\ \E data \in ResponseBodies(chunk(candidates, BatchSize)[idx + 1], opts.tlds) :
           acc' = takeHits(acc, batchHits(checkDomainsViaIDS(opts.tlds, opts.maxPriceUSD, data)), remainingHits)
    /\ idx' = idx + 1
    /\ hpc' = "processHuntBatches"
    /\ UNCHANGED <<opts, round, totalFound, found, pending, queries, failures, outcome>>
    /\ UNCHANGED genVars /\ UNCHANGED fnVars

\* the request fails: the catch block logs it and awaits delay(ERROR_RETRY_DELAY_MS)
CheckDomainsViaIDSFails ==
    /\ impl = "generateCandidates" /\ hpc = "checkDomainsViaIDS"
    /\ inflight' = inflight - 1
    /\ failures' = failures + 1
    /\ hpc' = "errorDelay"
    /\ UNCHANGED <<opts, round, totalFound, found, idx, pending, acc, queries, outcome>>
    /\ UNCHANGED genVars /\ UNCHANGED fnVars

\* the delay is over: processHuntBatches({...params, index: index + 1, acc})
ErrorRetryDelay ==
    /\ impl = "generateCandidates" /\ hpc = "errorDelay"
    /\ idx' = idx + 1
    /\ acc' = accAfterFailure(acc)
    /\ hpc' = "processHuntBatches"
    /\ UNCHANGED <<opts, round, totalFound, found, pending, inflight, queries, failures, outcome>>
    /\ UNCHANGED genVars /\ UNCHANGED fnVars

\* processHuntBatches returns {newRows, done}; runRound appends the rows and either
\* returns (hunt then sorts) or (after the pacing delay) runs the next round
ProcessHuntBatchesReturn ==
    /\ impl = "generateCandidates" /\ hpc = "processHuntBatches"
    /\ (idx >= Len(chunk(candidates, BatchSize)) \/ Len(acc) >= remainingHits)
    /\ LET done == Len(acc) >= remainingHits
           updatedFound == found \o acc
       IN IF done \/ Len(updatedFound) >= opts.count
          THEN /\ found' = sortDomainRows(updatedFound)
               /\ hpc' = "done" /\ outcome' = "done" /\ round' = round
          ELSE /\ found' = updatedFound
               /\ hpc' = "runRound" /\ outcome' = outcome /\ round' = round + 1
    /\ acc' = <<>>
    /\ UNCHANGED <<opts, totalFound, idx, pending, inflight, queries, failures>>
    /\ UNCHANGED genVars /\ UNCHANGED fnVars

NextHunt ==
    \/ \E draws \in DrawLists : HuntRound(draws)
    \/ HuntExit
    \/ CheckDomainsBatch
    \/ QueryBatchOk
    \/ QueryBatchFails
    \/ HuntResult
    \/ CheckDomainsNext
    \/ HuntRoundEnd
    \/ RunRoundReturn
    \/ \E draws \in DrawLists : RunRound(draws)
    \/ ProcessHuntBatchesQuery
    \/ CheckDomainsViaIDSOk
    \/ CheckDomainsViaIDSFails
    \/ ErrorRetryDelay
    \/ ProcessHuntBatchesReturn

SpecHunt == InitHunt /\ [][NextHunt]_vars

\* every request returns or fails, timers fire, and the loop takes its next step
SpecHuntFair == SpecHunt /\ WF_vars(NextHunt)

-----------------------------------------------------------------------------
(* The check command (cli.ts) over checkNames / processBatches /           *)
(* checkBatch (check.ts).  The names being checked are kept in candidates, *)
(* processBatches' index and acc in idx and acc, the printed rows in found. *)

\* raw name lists (stdin, file and arguments together): none, blanks, names that
\* normalise to nothing, a name with a .com suffix, duplicates, two and three names
RawNameLists ==
    { <<>>,
      << <<" ">> >>,
      << <<"1","2","-","3">>, <<".","c","o","m">> >>,
      << <<"P","a","l","o",".","c","o","m">> >>,
      << palo, <<"P","A","L","O"," ">> >>,
      << palo, calvo >> }

CheckCalls ==
    {[fn |-> "check", names |-> ns, tlds |-> ts, maxPriceUSD |-> b] :
        ns \in RawNameLists, ts \in {<<com>>, <<com, io>>}, b \in {0, 15}}
    \cup {[fn |-> "check", names |-> << <<"p","a","-","l","o">>, calvo, piso >>,
           tlds |-> <<com>>, maxPriceUSD |-> 15]}

InitCheck ==
    /\ call \in CheckCalls /\ result = Null /\ responses = <<>>
    /\ GenOff
    /\ opts = [count |-> 0, tlds |-> call.tlds, maxPriceUSD |-> call.maxPriceUSD]
    /\ round = 0 /\ totalFound = 0 /\ found = <<>> /\ idx = 0
    /\ pending = <<>> /\ acc = <<>> /\ inflight = 0 /\ queries = <<>> /\ failures = 0
    /\ hpc = "checkAction" /\ outcome = "running"

\* the command's action: normalise, de-duplicate, reject an empty list, else checkNames
CheckAction ==
    /\ hpc = "checkAction"
    /\ LET unique == uniqueNames(call.names) IN
       IF rejectsNames(unique)
       THEN hpc' = "threw" /\ outcome' = "error" /\ candidates' = candidates
       ELSE hpc' = "processBatches" /\ outcome' = outcome /\ candidates' = unique
    /\ UNCHANGED <<impl, params, seen, attempts, nextCount, gpc, emitted, calls>>
    /\ UNCHANGED <<opts, round, totalFound, found, idx, pending, acc, inflight, queries, failures>>
    /\ UNCHANGED fnVars

\* processBatches with a batch left: checkBatch awaits checkDomainsViaIDS for it
ProcessBatchesQuery ==
    /\ hpc = "processBatches" /\ ~(idx >= Len(chunk(candidates, BatchSize)))
    /\ inflight' = inflight + 1
    /\ queries' = Append(queries, chunk(candidates, BatchSize)[idx + 1])
    /\ hpc' = "checkBatch"
    /\ UNCHANGED <<opts, round, totalFound, found, idx, pending, acc, failures, outcome>>
    /\ UNCHANGED genVars /\ UNCHANGED fnVars

\* the request succeeds with body data: one row per (name, tld) of the batch,
\* (pacing delay,) next index with the rows appended
CheckBatchOk ==
    /\ hpc = "checkBatch"
    /\ inflight' = inflight - 1
    /\ LET batch == chunk(candidates, BatchSize)[idx + 1] IN
       \E data \in ResponseBodies(batch, opts.tlds) :
          /\ acc' = acc \o checkBatchRows(batch, opts.tlds,
                                          checkDomainsViaIDS(opts.tlds, opts.maxPriceUSD, data))
          /\ responses' = Append(responses, data)
    /\ idx' = idx + 1
    /\ hpc' = "processBatches"
    /\ UNCHANGED <<opts, round, totalFound, found, pending, queries, failures, outcome>>
    /\ UNCHANGED genVars /\ UNCHANGED <<call, result>>

\* the request fails: nothing in check.ts catches it, the command ends with the error
CheckBatchFails ==
    /\ hpc = "checkBatch"
    /\ inflight' = inflight - 1
    /\ failures' = failures + 1
    /\ hpc' = "threw" /\ outcome' = "error"
    /\ UNCHANGED <<opts, round, totalFound, found, idx, pending, acc, queries>>
    /\ UNCHANGED genVars /\ UNCHANGED fnVars

\* index >= batches.length: processBatches returns acc, checkNames sorts the rows
ProcessBatchesReturn ==
    /\ hpc = "processBatches" /\ idx >= Len(chunk(candidates, BatchSize))
    /\ found' = sortDomainRows(acc)
    /\ hpc' = "done" /\ outcome' = "done"
    /\ UNCHANGED <<opts, round, totalFound, idx, pending, acc, inflight, queries, failures>>
    /\ UNCHANGED genVars /\ UNCHANGED fnVars

NextCheck ==
    \/ CheckAction
    \/ ProcessBatchesQuery
    \/ CheckBatchOk
    \/ CheckBatchFails
    \/ ProcessBatchesReturn

SpecCheck == InitCheck /\ [][NextCheck]_vars

-----------------------------------------------------------------------------
(* Hunts and checks together: every run that sends availability requests.  *)

InitRequests == InitHunt \/ InitCheck

NextRequests == NextHunt \/ NextCheck

SpecRequests == InitRequests /\ [][NextRequests]_vars

-----------------------------------------------------------------------------
(* Claims about the hunt loop (SpecHunt, SpecHuntFair).                    *)

\* C1: in every reachable state of a hunt, for any target count >= 0 and any
\* upstream responses, the number of hits accumulated or yielded so far is at most
\* the target count (after every batch, every round, and in the final output).
C1_HitsNeverExceedTarget ==
    /\ Len(found) <= opts.count
    /\ totalFound <= opts.count
    /\ Len(found) + Len(acc) <= opts.count

\* the target is reached while the batch still holds a further available result
C1_Witness ==
    /\ hpc = "yield" /\ opts.count > 0 /\ totalFound = opts.count
    /\ pending # <<>> /\ Head(pending).available

\* C2: a failed batch query does not abort the hunt: the hunt goes on and ends by
\* delivering its hits without raising an error to its caller.
C2_BatchFailureNeverAborts == failures > 0 => outcome # "error"

\* C8: a hunt with count = 0 ends immediately with an empty result: no generation
\* round is run and no availability query is issued.
C8_ZeroCountEndsAtOnce ==
    /\ [](opts.count = 0 =>
            /\ calls = 0 /\ seen = {} /\ queries = <<>> /\ inflight = 0 /\ found = <<>>
            /\ outcome \in {"running", "done"})
    /\ [][opts.count = 0 => (outcome' = "done" /\ found' = <<>>)]_vars

C8_Witness == opts.count = 0 /\ outcome = "done" /\ found = <<>> /\ calls = 0

\* C9: every hunt terminates (every request returning or failing): it runs at most
\* MAX_ROUNDS rounds, and when the target is not reached within them it ends with
\* fewer hits than requested as a normal result, not an error.
C9_HuntTerminates ==
    /\ <>(outcome # "running")
    /\ [](calls <= MaxRounds /\ round <= MaxRounds + 1)
    /\ [](round > MaxRounds => outcome # "error")
    /\ ((round > MaxRounds /\ Len(found) < opts.count)
           ~> (outcome = "done" /\ Len(found) < opts.count))

\* the round cap ended a hunt that had run every round and not reached its target
C9_Witness ==
    /\ outcome = "done" /\ round > MaxRounds /\ calls = MaxRounds
    /\ Len(found) < opts.count

-----------------------------------------------------------------------------
(* Claims about price selection (SpecFn).                                  *)

\* the amount a quote is taken at: its price, or its min_price when the price is null
EffectiveCents(m) == IF m.price # Null THEN m.price ELSE m.min_price

Priced(markets) == {k \in 1..Len(markets) : EffectiveCents(markets[k]) # Null}

IsCheapest(markets, k) ==
    /\ k \in Priced(markets)
    /\ \A j \in Priced(markets) : EffectiveCents(markets[k])[1] <= EffectiveCents(markets[j])[1]

\* C12 (amended): taking each quote at its price, or at its min_price when its price
\* is null, the result's price is null iff no quote has such an amount; otherwise it
\* is the minimum of these amounts converted from cents to dollars, and the reported
\* marketplace is that of the earliest quote attaining the minimum.
C12_CheapestEffectiveQuote ==
    (Returned("toDomainResult") \/ Returned("toDomainInfo")) =>
        LET markets == call.r.markets
            res == result[1]
        IN /\ (res.priceUSD = Null) <=> (Priced(markets) = {})
           /\ (res.priceUSD = Null) <=> (res.market = Null)
           /\ Priced(markets) # {} =>
                 LET first == CHOOSE k \in 1..Len(markets) :
                                 IsCheapest(markets, k) /\ \A j \in 1..(k-1) : ~IsCheapest(markets, j)
                 IN /\ CentsOf(res.priceUSD[1]) = EffectiveCents(markets[first])[1]
                    /\ res.priceUSD[1].frac \in 0..99
                    /\ res.market = Some(markets[first].market)

\* two quotes tie for the minimum and the earlier one's marketplace is reported
C12_Witness ==
    /\ Returned("toDomainResult")
    /\ \E j, k \in 1..Len(call.r.markets) :
          j < k /\ IsCheapest(call.r.markets, j) /\ IsCheapest(call.r.markets, k)
          /\ result[1].market = Some(call.r.markets[j].market)

\* C12 (as stated, a quote's numeric price being its price field): the result's price
\* is null iff no quote has a non-null price, and otherwise is the minimum of the
\* quotes' prices.
C12_CheapestNumericPrice ==
    Returned("toDomainResult") =>
        LET markets == call.r.markets
            numeric == {k \in 1..Len(markets) : markets[k].price # Null}
        IN /\ (result[1].priceUSD = Null) <=> (numeric = {})
           /\ numeric # {} =>
                 \E k \in numeric :
                    /\ CentsOf(result[1].priceUSD[1]) = markets[k].price[1]
                    /\ \A j \in numeric : markets[k].price[1] <= markets[j].price[1]

-----------------------------------------------------------------------------
(* Claims about the seed-mutation strategy (SpecMutant).                   *)

LettersOnly(w) == \A k \in 1..Len(w) : w[k] \in Range(LowerCase)

\* C17: every candidate the generator returns consists only of the lowercase letters
\* a-z, whatever seed words the caller supplies (seed words holding digits, hyphens
\* or other non-letter characters included).
C17_CandidatesAreLetters == \A k \in 1..Len(Offered) : LettersOnly(Offered[k])

-----------------------------------------------------------------------------
(* Claims about failures, stopping and stalling in the hunt (SpecHunt).    *)

\* C14: after a batch query fails during a hunt, that batch is retried: the same
\* batch's names are queried again after the retry delay (so a hunt that has ended
\* after a failure has sent some batch more than once).
C14_FailedBatchIsQueriedAgain ==
    (outcome \in {"done", "error"} /\ failures > 0) => ~NoDup(queries)

\* C18: once the accumulated hit count has reached the target no further
\* availability query is issued: a request is in flight only while the hits found
\* so far are fewer than the target.
C18_NoQueryAfterTarget ==
    inflight > 0 => (totalFound < opts.count /\ Len(found) + Len(acc) < opts.count)

\* C19: when a batch query fails during a hunt, the accumulated hit list is exactly
\* what it was before that query: the failure and the recovery from it add no
\* record and drop none.
C19_FailureLeavesHitsUntouched ==
    [][(failures' > failures \/ hpc = "errorDelay")
          => (found' = found /\ acc' = acc /\ totalFound' = totalFound)]_vars

\* a batch's query has just failed in a round that had already accumulated hits
C19_Witness == hpc = "errorDelay" /\ failures > 0 /\ acc # <<>>

\* C20: if a round's generation step produces zero candidates, the hunt ends in that
\* round: no availability query is issued in it, no later round is started (an
\* ended hunt takes no further step), and the hits accumulated so far are the result.
C20_StalledGenerationEndsHunt ==
    /\ [][(calls' = calls + 1 /\ candidates' = <<>>)
             => /\ outcome' = "done"
                /\ queries' = queries /\ inflight' = 0 /\ round' = round
                /\ Len(found') = Len(found) /\ Range(found') = Range(found)]_vars
    /\ [][outcome = "running"]_vars

\* a later round produced nothing and the hunt ended below its target with the hits it had
C20_Witness ==
    /\ outcome = "done" /\ calls = 2 /\ round = 2 /\ candidates = <<>>
    /\ found # <<>> /\ Len(found) < opts.count

-----------------------------------------------------------------------------
(* Claims about caller errors in generation (SpecGen).                     *)

\* C16: a generation with min > max is rejected at entry: no generation attempt is
\* performed for it.
C16_MinAboveMaxRejected == params.min > params.max => attempts = 0

-----------------------------------------------------------------------------
(* Claims about the check command (SpecCheck).                             *)

\* the response to the batch that held the n-th name has a record for (name, tld)
HasRecord(n, name, tld) ==
    LET body == responses[((n - 1) \div BatchSize) + 1]
    IN \E j \in 1..Len(body) : body[j].label = name /\ body[j].tld = tld

\* C11: for a check of distinct names against distinct TLDs whose batch queries all
\* succeed, the output holds exactly one row for every requested (name, TLD) pair
\* and no other row; a pair's row has status ERROR exactly when the response to its
\* batch held no record for the pair; and every batch is queried once only.
C11_OneRowPerPair ==
    (call.fn = "check" /\ outcome = "done") =>
        /\ Len(found) = Len(candidates) * Len(opts.tlds)
        /\ \A n \in 1..Len(candidates), t \in 1..Len(opts.tlds) :
              LET rows == {k \in 1..Len(found) :
                              found[k].name = candidates[n] /\ found[k].tld = opts.tlds[t]}
              IN /\ Cardinality(rows) = 1
                 /\ \A k \in rows :
                       (found[k].status = "ERROR") <=> ~HasRecord(n, candidates[n], opts.tlds[t])
        /\ Concat(queries) = candidates /\ Len(responses) = Len(queries)

\* a finished check with one pair answered and another pair left without a record
C11_Witness ==
    /\ call.fn = "check" /\ outcome = "done"
    /\ \E j, k \in 1..Len(found) : found[j].status = "ERROR" /\ found[k].status # "ERROR"

\* C15: a check invocation whose normalised, de-duplicated name list is empty is
\* rejected with an error reported to the caller, and no availability query is issued.
C15_EmptyNameListRejected ==
    (call.fn = "check" /\ (\A k \in 1..Len(call.names) : normalizeName(call.names[k]) = <<>>)) =>
        /\ queries = <<>> /\ inflight = 0 /\ found = <<>>
        /\ hpc \in {"checkAction", "threw"}
        /\ hpc = "threw" => outcome = "error"

\* names were given, all of them normalise to nothing, and the command ended in error
C15_Witness ==
    /\ call.fn = "check" /\ call.names # <<>>
    /\ outcome = "error" /\ failures = 0 /\ queries = <<>>

-----------------------------------------------------------------------------
(* Claims about request sequencing (SpecRequests).                         *)

\* the names handed to the availability client so far, in order
Asked == IF call.fn = "check" THEN candidates ELSE emitted

IsPrefix(a, b) == Len(a) <= Len(b) /\ SubSeq(b, 1, Len(a)) = a

\* C13: during a hunt or a check at most one availability request is in flight at
\* any time, a request is issued only when none is in flight, and batches and rounds
\* are processed strictly in order: the batches sent so far are, in order, the
\* leading names handed to the client, none skipped, repeated or reordered.
C13_OneRequestInOrder ==
    /\ [](inflight \in {0, 1})
    /\ [](IsPrefix(Concat(queries), Asked))
    /\ [][Len(queries') > Len(queries) => (inflight = 0 /\ inflight' = 1)]_vars
    /\ [][inflight = 1 => (queries' = queries /\ inflight' = 0)]_vars

\* a second round's batch is in flight after the first round's batches were answered
C13_Witness == inflight = 1 /\ Len(queries) >= 3 /\ round = 2

-----------------------------------------------------------------------------
(* Claims about what the hunt keeps (SpecHunt).                            *)

\* C21: every hit the hunt yields or accumulates has status FREE or BUY; a result
\* classified TAKEN, or a pair with no upstream record, is never appended to the hit
\* list, and the count compared with the target counts the appended hits only.
C21_HitsAreFreeOrBuy ==
    /\ \A k \in 1..Len(found) : found[k].status \in {"FREE", "BUY"}
    /\ \A k \in 1..Len(acc) : acc[k].status \in {"FREE", "BUY"}
    /\ impl = "createGenerator" => totalFound = Len(found)

\* a hit has been appended and the batch's next result is one that classifies as TAKEN
C21_Witness ==
    /\ hpc = "yield" /\ found # <<>> /\ pending # <<>>
    /\ classify(Head(pending), opts.maxPriceUSD).status = "TAKEN"

-----------------------------------------------------------------------------
(* Claims about the names in a hunt's result and queries (SpecHunt).       *)

\* the hits the hunt holds: those returned or yielded, then the current round's
HuntHits == found \o acc

\* C27: whatever the upstream response holds, records for labels that were not asked
\* for included, every hit of the hunt is for a name generated in that hunt and a
\* requested TLD, and no (name, TLD) pair appears twice among the hits.
C27_HitsAreRequestedPairs ==
    /\ \A k \in 1..Len(HuntHits) :
          /\ HuntHits[k].name \in Range(Concat(queries))
          /\ HuntHits[k].tld \in Range(opts.tlds)
    /\ NoDup([k \in 1..Len(HuntHits) |-> <<HuntHits[k].name, HuntHits[k].tld>>])

\* the same statement for the streaming hunt alone, which looks each requested pair up
C27_StreamingHitsAreRequestedPairs == impl = "createGenerator" => C27_HitsAreRequestedPairs

\* C28: within one hunt every candidate name goes to the availability service in at
\* most one query: no name is in two batches of a round nor in batches of two rounds,
\* whether or not its batch's query succeeded.
C28_NameQueriedOnce == NoDup(Concat(queries))

\* round 2 has sent a batch of its own after a query of round 1 had failed
C28_Witness ==
    /\ round = 2 /\ failures > 0
    /\ \E q \in Range(queries) : Range(q) \subseteq Range(candidates)
    /\ \E q \in Range(queries) : Range(q) \cap Range(candidates) = {}

-----------------------------------------------------------------------------
(* Batching at the size the program uses (SpecBatches): checkNames' chunk    *)
(* followed by processBatches, and checkDomains' slicing loop, both drained  *)
(* to the end with every query succeeding.                                   *)

IDS_BATCH_SIZE == 25
DEFAULT_BATCH_SIZE == 25
MaxNames == 52

BatchCalls ==
    {[fn |-> f, names |-> [k \in 1..n |-> k]] : f \in {"checkNames", "checkDomains"}, n \in 0..MaxNames}

InitBatches ==
    /\ call \in BatchCalls /\ result = Null /\ responses = <<>>
    /\ GenOff
    /\ opts = [count |-> 0, tlds |-> <<>>, maxPriceUSD |-> 0]
    /\ round = 0 /\ totalFound = 0 /\ found = <<>> /\ idx = 0
    /\ pending = <<>> /\ acc = <<>> /\ inflight = 0 /\ queries = <<>> /\ failures = 0
    /\ hpc = call.fn /\ outcome = "running"

\* checkNames: batches = chunk(names, IDS_BATCH_SIZE)
CheckNamesChunk ==
    /\ hpc = "checkNames"
    /\ result' = Some(chunk(call.names, IDS_BATCH_SIZE))
    /\ hpc' = "processBatches"
    /\ UNCHANGED <<call, responses>> /\ UNCHANGED genVars
    /\ UNCHANGED <<opts, round, totalFound, found, idx, pending, acc, inflight, queries,
                   failures, outcome>>

\* processBatches: one checkBatch per index, then index + 1; returns at batches.length
ProcessBatchesStep ==
    /\ hpc = "processBatches"
    /\ IF idx >= Len(result[1])
       THEN hpc' = "done" /\ outcome' = "returned" /\ UNCHANGED <<idx, queries>>
       ELSE /\ queries' = Append(queries, result[1][idx + 1])
            /\ idx' = idx + 1
            /\ UNCHANGED <<hpc, outcome>>
    /\ UNCHANGED fnVars /\ UNCHANGED genVars
    /\ UNCHANGED <<opts, round, totalFound, found, pending, acc, inflight, failures>>

\* checkDomains: for (i = 0; i < names.length; i += batchSize) queryBatch(names.slice(i, i + batchSize))
CheckDomainsStep ==
    /\ hpc = "checkDomains"
    /\ IF idx < Len(call.names)
       THEN /\ queries' = Append(queries, Slice(call.names, idx, idx + DEFAULT_BATCH_SIZE))
            /\ idx' = idx + DEFAULT_BATCH_SIZE
            /\ UNCHANGED <<hpc, outcome>>
       ELSE hpc' = "done" /\ outcome' = "returned" /\ UNCHANGED <<idx, queries>>
    /\ UNCHANGED fnVars /\ UNCHANGED genVars
    /\ UNCHANGED <<opts, round, totalFound, found, pending, acc, inflight, failures>>

NextBatches == CheckNamesChunk \/ ProcessBatchesStep \/ CheckDomainsStep

SpecBatches == InitBatches /\ [][NextBatches]_vars

\* the lengths a list of batches may have: none empty, none above 25, all but the last 25
BatchLengthsOk(bs) ==
    \A k \in 1..Len(bs) :
        /\ Len(bs[k]) >= 1 /\ Len(bs[k]) <= 25
        /\ (k < Len(bs) => Len(bs[k]) = 25)

\* C23: the batches concatenated in order are the input list, every batch is non-empty
\* and holds at most 25 names, every batch but the last holds exactly 25, and one query
\* is issued per batch: ceil(n/25) queries for n names when none fails.
C23_Batching ==
    call.fn \in {"checkNames", "checkDomains"} =>
        /\ BatchLengthsOk(queries)
        /\ IsPrefix(Concat(queries), call.names)
        /\ (hpc = "processBatches" =>
                /\ BatchLengthsOk(result[1])
                /\ Concat(result[1]) = call.names
                /\ queries = SubSeq(result[1], 1, idx))
        /\ (hpc = "done" =>
                /\ Concat(queries) = call.names
                /\ 25 * Len(queries) >= Len(call.names)
                /\ Len(call.names) + 25 > 25 * Len(queries))

\* 51 names have gone out as batches of 25, 25 and 1
C23_Witness ==
    /\ hpc = "done" /\ Len(call.names) = 51 /\ Len(queries) = 3
    /\ Len(queries[3]) = 1

-----------------------------------------------------------------------------
(* ids.ts / util.ts: idsHashCode.  A 32-bit integer is held as the two      *)
(* 16-bit halves of its two's-complement pattern, [hi, lo]; the double       *)
(* arithmetic between two truncations is exact (below 2^53), so it is done   *)
(* on the pattern modulo 2^32.                                               *)

Half == 65536

Alphabet10 == <<"0", "1", "2", "3", "4", "5", "6", "7", "8", "9">>

\* ToInt32 of a non-negative number below 2^32 given by its halves
int32(hi, lo) == [hi |-> hi % Half, lo |-> lo % Half]

\* ch.codePointAt(0), for the characters names are made of
codePointAt(ch) ==
    CASE ch = "-" -> 45
      [] ch = "1" -> 49
      [] OTHER -> 96 + letterIndex(ch)

\* r << 5
shiftLeft5(r) == int32(r.hi * 32 + ((r.lo * 32) \div Half), r.lo * 32)

\* a - b
minus(a, b) ==
    IF a.lo >= b.lo
    THEN int32(a.hi + Half - b.hi, a.lo - b.lo)
    ELSE int32(a.hi + Half - b.hi + Half - 1, a.lo + Half - b.lo)

\* a + n, n a code point
plus(a, n) == int32(a.hi + (n \div Half) + ((a.lo + (n % Half)) \div Half), a.lo + (n % Half))

\* bitwise and / or of two 16-bit halves, bit by bit
RECURSIVE bitAnd(_, _, _)
bitAnd(x, y, bits) ==
    IF bits = 0 THEN 0
    ELSE (IF x % 2 = 1 /\ y % 2 = 1 THEN 1 ELSE 0) + 2 * bitAnd(x \div 2, y \div 2, bits - 1)

RECURSIVE bitOr(_, _, _)
bitOr(x, y, bits) ==
    IF bits = 0 THEN 0
    ELSE (IF x % 2 = 1 \/ y % 2 = 1 THEN 1 ELSE 0) + 2 * bitOr(x \div 2, y \div 2, bits - 1)

\* x | 0
orZero(x) == [hi |-> bitOr(x.hi, 0, 16), lo |-> bitOr(x.lo, 0, 16)]

\* r &= r
andSelf(x) == [hi |-> bitAnd(x.hi, x.hi, 16), lo |-> bitAnd(x.lo, x.lo, 16)]

\* the decimal digits of the unsigned number with halves hi, lo
RECURSIVE digitsOf(_, _)
digitsOf(hi, lo) ==
    LET low == (hi % 10) * Half + lo
        digit == <<Alphabet10[(low % 10) + 1]>>
    IN IF hi \div 10 = 0 /\ low \div 10 = 0 THEN digit
       ELSE digitsOf((hi \div 10) + ((low \div 10) \div Half), (low \div 10) % Half) \o digit

\* String(r) of a 32-bit integer
stringOfInt32(r) ==
    IF r.hi >= Half \div 2
    THEN LET m == minus(int32(0, 0), r) IN <<"-">> \o digitsOf(m.hi, m.lo)
    ELSE digitsOf(r.hi, r.lo)

\* the reducer with the truncation left out of the shift's operand: r * 32 is taken
\* on the low half only
idsHashStep_lowHalfShift(r, ch) ==
    orZero(plus(minus(int32(0, r.lo * 32), r), codePointAt(ch)))

\* ids.ts reducer: ((r << 5) - r + (ch.codePointAt(0) ?? 0)) | 0
idsHashStep(r, ch) == orZero(plus(minus(shiftLeft5(r), r), codePointAt(ch)))

RECURSIVE idsHashFold(_, _)
idsHashFold(r, name) ==
    IF name = <<>> THEN r ELSE idsHashFold(idsHashStep(r, Head(name)), Tail(name))

\* idsHashCode of ids.ts, seed 42
idsHashCode(name) == stringOfInt32(idsHashFold(int32(0, 42), name))

\* util.ts loop body: r = (r << 5) - r + (ch.codePointAt(0) ?? 0); r &= r
RECURSIVE idsHashLoop(_, _)
idsHashLoop(r, name) ==
    IF name = <<>> THEN r
    ELSE idsHashLoop(andSelf(plus(minus(shiftLeft5(r), r), codePointAt(Head(name)))), Tail(name))

\* idsHashCode of util.ts, seed 42
idsHashCodeUtil(name) == stringOfInt32(idsHashLoop(int32(0, 42), name))

HashChars == {"a", "n", "z"}

MaxNameLen == 7

HashCalls ==
    {[fn |-> "idsHashCode", file |-> f, name |-> n] :
        f \in {"ids.ts", "util.ts"}, n \in SeqsUpTo(HashChars, MaxNameLen)}

\* 31 * r + c modulo 2^32 on four base-256 digits, least significant first
TimesThirtyOnePlus(d, c) ==
    LET d1 == d[1] * 31 + c
        d2 == d[2] * 31 + (d1 \div 256)
        d3 == d[3] * 31 + (d2 \div 256)
        d4 == d[4] * 31 + (d3 \div 256)
    IN <<d1 % 256, d2 % 256, d3 % 256, d4 % 256>>

RECURSIVE WrapFold(_, _)
WrapFold(d, name) ==
    IF name = <<>> THEN d
    ELSE WrapFold(TimesThirtyOnePlus(d, codePointAt(Head(name))), Tail(name))

\* 2^32 minus the number with digits d (d not zero)
Negated(d) ==
    LET c1 == 256 - d[1]
        c2 == 255 - d[2] + (c1 \div 256)
        c3 == 255 - d[3] + (c2 \div 256)
        c4 == 255 - d[4] + (c3 \div 256)
    IN <<c1 % 256, c2 % 256, c3 % 256, c4 % 256>>

\* the decimal digits of the number with base-256 digits d
RECURSIVE Decimal(_)
Decimal(d) ==
    LET q4 == d[4] \div 10
        r4 == d[4] % 10
        q3 == (r4 * 256 + d[3]) \div 10
        r3 == (r4 * 256 + d[3]) % 10
        q2 == (r3 * 256 + d[2]) \div 10
        r2 == (r3 * 256 + d[2]) % 10
        q1 == (r2 * 256 + d[1]) \div 10
        r1 == (r2 * 256 + d[1]) % 10
    IN IF <<q1, q2, q3, q4>> = <<0, 0, 0, 0>> THEN <<Alphabet10[r1 + 1]>>
       ELSE Decimal(<<q1, q2, q3, q4>>) \o <<Alphabet10[r1 + 1]>>

\* the signed 32-bit reading of d, in decimal
SignedDecimal(d) == IF d[4] >= 128 THEN <<"-">> \o Decimal(Negated(d)) ELSE Decimal(d)

\* C29: the request hash of a name is the decimal string of the signed 32-bit
\* wrap-around of folding r <- 31 * r + codepoint(ch) over its characters from the seed
\* 42 (the empty name hashes to "42"), and the implementation truncating with | 0 and
\* the one truncating with r &= r return the same string for every name.
C29_HashIsWrappedFold ==
    (call.fn = "idsHashCode" /\ result # Null) =>
        /\ result[1] = SignedDecimal(WrapFold(<<42, 0, 0, 0>>, call.name))
        /\ idsHashCode(call.name) = idsHashCodeUtil(call.name)
        /\ (call.name = <<>> => result[1] = <<"4", "2">>)

\* a seven-letter name whose fold has wrapped to a negative number
C29_Witness ==
    /\ call.fn = "idsHashCode" /\ result # Null
    /\ Len(call.name) = 7 /\ Head(result[1]) = "-"

-----------------------------------------------------------------------------
(* Pure functions applied to enumerated inputs (SpecPure).                 *)

\* C22: in round r (1 <= r <= 100) the hunt requests min(120 * ceil(r/3), 500)
\* candidates; the size never decreases with r, is 120 in rounds 1-3 and 500 from
\* round 13 on.
C22_RequestedSize ==
    (call.fn = "batchCount" /\ result # Null) =>
        LET r == call.round
            n == result[1]
        IN  /\ \E c \in 1..34 :
                /\ 3 * (c - 1) < r /\ r <= 3 * c
                /\ n = (IF 120 * c < 500 THEN 120 * c ELSE 500)
            /\ \A q \in 1..r : batchCount(q) <= n
            /\ (r <= 3 => n = 120)
            /\ (r >= 13 => n = 500)

\* round 12 has been sized: the last round below the cap
C22_Witness == call.fn = "batchCount" /\ call.round = 12 /\ result = Some(480)

\* rows handed to sortDomainRows: equal names under two TLDs, equal prices, a BUY
\* row without a price
SortRow(name, tld, status, price) ==
    [name |-> name, tld |-> tld, domain |-> domainOf(name, tld), status |-> status,
     priceUSD |-> price, market |-> Null]

SortRows ==
    { SortRow(<<"b">>, com, "FREE", Null), SortRow(<<"a","b">>, com, "FREE", Null),
      SortRow(<<"a","b">>, io, "FREE", Null),
      SortRow(<<"b">>, com, "BUY", Some(toDollars(250))),
      SortRow(<<"a">>, com, "BUY", Some(toDollars(100))),
      SortRow(<<"d">>, io, "BUY", Some(toDollars(100))),
      SortRow(<<"c">>, com, "BUY", Null),
      SortRow(<<"b">>, com, "TAKEN", Null), SortRow(<<"a">>, com, "TAKEN", Some(toDollars(250))),
      SortRow(<<"b">>, com, "ERROR", Null), SortRow(<<"a">>, io, "ERROR", Null) }

MaxRows == 3

\* a <= b in dictionary order
RECURSIVE NameAtMost(_, _)
NameAtMost(a, b) ==
    IF a = <<>> THEN TRUE
    ELSE IF b = <<>> THEN FALSE
    ELSE IF Head(a) = Head(b) THEN NameAtMost(Tail(a), Tail(b))
    ELSE letterIndex(Head(a)) < letterIndex(Head(b))

\* price p is not above price q, a missing price being above every price
PriceAtMost(p, q) == q = Null \/ (p # Null /\ CentsOf(p[1]) <= CentsOf(q[1]))

StatusRank(status) ==
    CASE status = "FREE" -> 1 [] status = "BUY" -> 2 [] status = "TAKEN" -> 3 [] status = "ERROR" -> 4

Occurrences(rows, x) == Cardinality({k \in 1..Len(rows) : rows[k] = x})

\* C24: sortDomainRows returns a permutation of its input arranged as FREE, BUY, TAKEN,
\* ERROR; FREE, TAKEN and ERROR rows ascend by name, BUY rows are in non-decreasing
\* price order with rows lacking a price last.
C24_SortedPermutation ==
    (call.fn = "sortDomainRows" /\ result # Null) =>
        LET in == call.rows
            out == result[1]
        IN  /\ Len(out) = Len(in)
            /\ \A x \in Range(in) \cup Range(out) : Occurrences(in, x) = Occurrences(out, x)
            /\ \A i, j \in 1..Len(out) :
                  i < j =>
                    /\ StatusRank(out[i].status) <= StatusRank(out[j].status)
                    /\ (out[i].status = out[j].status /\ out[i].status # "BUY"
                          => NameAtMost(out[i].name, out[j].name))
                    /\ (out[i].status = "BUY" /\ out[j].status = "BUY"
                          => PriceAtMost(out[i].priceUSD, out[j].priceUSD))

\* an unpriced BUY row given first comes out last, behind a priced BUY row and a FREE row
C24_Witness ==
    /\ call.fn = "sortDomainRows" /\ result # Null
    /\ Len(call.rows) = 3 /\ call.rows[1].status = "BUY" /\ call.rows[1].priceUSD = Null
    /\ result[1][1].status = "FREE" /\ result[1][2].status = "BUY"
    /\ result[1][3] = call.rows[1]

\* the characters a stem is made of: the letters, a digit and a hyphen (seed words are
\* lowercased but not otherwise filtered)
StemChars == Range(Alphabet) \cup {"1", "-"}

MaxStemLen == 2

MutateCalls ==
    {[fn |-> "mutate", stem |-> st, pos |-> ps] :
        st \in SeqsUpTo(StemChars, MaxStemLen), ps \in 0..(MaxStemLen - 1)}

IsConsonant(ch) == ch \in Range(Alphabet) \ {"a", "e", "i", "o", "u"}

\* C25: in the Mutant strategy the mutated stem of a non-empty stem has the stem's
\* length and differs from it in exactly one position; a vowel is replaced by a
\* different vowel, a consonant by a different consonant: one of its entries in the
\* similarity table, or a single onset consonant when it has no entry.
C25_OneCharacterMutated ==
    (call.fn = "mutate" /\ result # Null /\ call.stem # <<>>) =>
        LET stem == call.stem
            mutated == result[1]
            ch == stem[call.pos + 1]
            repl == mutated[call.pos + 1]
        IN  /\ Len(mutated) = Len(stem)
            /\ {k \in 1..Len(stem) : mutated[k] # stem[k]} = {call.pos + 1}
            /\ (ch \in {"a", "e", "i", "o", "u"} =>
                    repl \in {"a", "e", "i", "o", "u"} /\ repl # ch)
            /\ (IsConsonant(ch) =>
                    /\ IsConsonant(repl) /\ repl # ch
                    /\ IF ch \in DOMAIN SIMILAR_CONSONANTS
                       THEN repl \in Range(SIMILAR_CONSONANTS[ch])
                       ELSE repl \in Range(C_ONSETS))

\* the consonant x, which has no table entry, has been replaced by an onset consonant
C25_Witness ==
    /\ call.fn = "mutate" /\ result # Null
    /\ call.stem = <<"e", "x">> /\ call.pos = 1 /\ result[1] = <<"e", "z">>

\* C26: the two classification paths agree: for every upstream record and budget the
\* status toDomainRow derives from the client's available / purchasable flags equals
\* the status classify derives from the available flag and the cheapest price; in both,
\* available and purchasable are never true together and a BUY row has a non-null
\* price that is at most the budget.
C26_PathsAgree ==
    (call.fn = "statusPaths" /\ result # Null) =>
        LET info == result[1].info
            row == result[1].row
            classified == result[1].classified
        IN  /\ row.status = classified.status
            /\ ~(info.available /\ info.purchasable)
            /\ ~(classified.available /\ classified.status = "BUY")
            /\ \A d \in {row, classified} :
                  d.status = "BUY" =>
                     d.priceUSD # Null /\ CentsOf(d.priceUSD[1]) <= 100 * call.maxPriceUSD

\* a record whose registry flag alone says unregistered, priced within budget: BUY on both paths
C26_Witness ==
    /\ call.fn = "statusPaths" /\ result # Null
    /\ call.r.isRegistered = Some(FALSE) /\ call.r.czdap
    /\ result[1].row.status = "BUY" /\ result[1].classified.status = "BUY"

\* C30: in the quality scan the identical-character check is subsumed by the class-run
\* checks and failure is sticky: at a character that completes three identical
\* characters the scan fails, wherever the same-character run exceeds 2 the consonant
\* run or the vowel run exceeds 2 as well, a failed state is left unchanged by every
\* later character, and the word is then rejected.
C30_SameRunSubsumedFailureSticky ==
    [][(call.fn = "scan" /\ hpc = "reduce") =>
          /\ (idx' = idx + 1 =>
                /\ (result[1].failed => result' = result)
                /\ (~result[1].failed /\ result'[1].sameRun > 2 =>
                        result'[1].cRun > 2 \/ result'[1].vRun > 2)
                /\ (idx >= 2 /\ call.word[idx + 1] = call.word[idx]
                        /\ call.word[idx] = call.word[idx - 1] => result'[1].failed))
          /\ (hpc' = "returned" /\ result[1].failed => outcome' = "false")]_vars

\* a failed scan whose same-character run exceeded 2 has since passed a different
\* character without recording it
C30_Witness ==
    /\ call.fn = "scan" /\ hpc = "reduce" /\ result[1].failed /\ result[1].sameRun > 2
    /\ idx >= 4 /\ call.word[idx] # result[1].prevCh

\* the applications SpecPure starts from
PureCalls ==
    {[fn |-> "batchCount", round |-> r] : r \in 1..MAX_ROUNDS}
    \cup {[fn |-> "sortDomainRows", rows |-> rs] : rs \in SeqsUpTo(SortRows, MaxRows)}
    \cup {c \in MutateCalls : c.pos < Max2(1, Len(c.stem))}
    \cup {[fn |-> "statusPaths", r |-> r, maxPriceUSD |-> b] : r \in IDSRecords, b \in Budgets}
    \cup HashCalls
    \cup {[fn |-> "scan", word |-> w] : w \in QWords}

InitPure == call \in PureCalls /\ result = Null /\ responses = <<>> /\ GenOff /\ HuntOff

CallBatchCount ==
    /\ call.fn = "batchCount" /\ result = Null
    /\ result' = Some(batchCount(call.round))
    /\ UNCHANGED <<call, responses>> /\ UNCHANGED genVars /\ UNCHANGED huntVars

CallSortDomainRows ==
    /\ call.fn = "sortDomainRows" /\ result = Null
    /\ result' = Some(sortDomainRows(call.rows))
    /\ UNCHANGED <<call, responses>> /\ UNCHANGED genVars /\ UNCHANGED huntVars

\* generateMutant's mutation of the stem: pos is Math.floor(Math.random() *
\* Math.max(1, stem.length)), the replacement is picked from the array for stem[pos]
CallMutate ==
    /\ call.fn = "mutate" /\ result = Null
    /\ IF call.stem = <<>>
       THEN result' = Some(mutate(call.stem, call.pos, ""))
       ELSE \E repl \in Range(replacementsFor(call.stem[call.pos + 1])) :
               result' = Some(mutate(call.stem, call.pos, repl))
    /\ UNCHANGED <<call, responses>> /\ UNCHANGED genVars /\ UNCHANGED huntVars

\* one record through both paths: checkDomainsViaIDS' loop body then toDomainRow, and
\* toDomainResult then classify
CallStatusPaths ==
    /\ call.fn = "statusPaths" /\ result = Null
    /\ result' = Some([info |-> toDomainInfo(call.r, call.maxPriceUSD),
                       row |-> toDomainRow(toDomainInfo(call.r, call.maxPriceUSD)),
                       classified |-> classify(toDomainResult(call.r), call.maxPriceUSD)])
    /\ UNCHANGED <<call, responses>> /\ UNCHANGED genVars /\ UNCHANGED huntVars

\* hash: idsHashCode(name), in the file that builds the request
CallIdsHashCode ==
    /\ call.fn = "idsHashCode" /\ result = Null
    /\ result' = Some(IF call.file = "ids.ts" THEN idsHashCode(call.name)
                      ELSE idsHashCodeUtil(call.name))
    /\ UNCHANGED <<call, responses>> /\ UNCHANGED genVars /\ UNCHANGED huntVars

\* isQuality up to the reduce: no vowel or a bad start returns false
IsQualityEnter ==
    /\ call.fn = "scan" /\ hpc = "off" /\ result = Null
    /\ IF \/ ~(\E k \in 1..Len(call.word) : isVowel(call.word[k]))
          \/ \E b \in 1..Len(BAD_STARTS) : startsWith(call.word, BAD_STARTS[b])
       THEN hpc' = "returned" /\ outcome' = "false" /\ result' = result
       ELSE hpc' = "reduce" /\ outcome' = outcome /\ result' = Some(INITIAL_STATE)
    /\ UNCHANGED <<call, responses>> /\ UNCHANGED genVars
    /\ UNCHANGED <<opts, round, totalFound, found, idx, pending, acc, inflight, queries, failures>>

\* one step of [...word].reduce(scanChar, INITIAL_STATE)
ScanChar ==
    /\ call.fn = "scan" /\ hpc = "reduce" /\ idx < Len(call.word)
    /\ result' = Some(scanChar(result[1], call.word[idx + 1]))
    /\ idx' = idx + 1
    /\ UNCHANGED <<call, responses>> /\ UNCHANGED genVars
    /\ UNCHANGED <<opts, round, totalFound, found, pending, acc, hpc, inflight, queries,
                   failures, outcome>>

\* isQuality after the reduce: the failed flag, then the transition ratio
IsQualityReturn ==
    /\ call.fn = "scan" /\ hpc = "reduce" /\ idx = Len(call.word)
    /\ hpc' = "returned"
    /\ outcome' = (IF result[1].failed THEN "false"
                   ELSE IF Len(call.word) > 1
                           /\ result[1].transitions * MIN_TRANSITION_RATIO_DEN
                                < MIN_TRANSITION_RATIO_NUM * (Len(call.word) - 1)
                        THEN "false"
                        ELSE "true")
    /\ UNCHANGED fnVars /\ UNCHANGED genVars
    /\ UNCHANGED <<opts, round, totalFound, found, idx, pending, acc, inflight, queries, failures>>

NextPure ==
    \/ CallBatchCount \/ CallSortDomainRows \/ CallMutate \/ CallStatusPaths
    \/ CallIdsHashCode
    \/ IsQualityEnter \/ ScanChar \/ IsQualityReturn

SpecPure == InitPure /\ [][NextPure]_vars

====
